---- MODULE Spec2Model ----
(***************************************************************************)
(* Model of micromini's text-event engine                                  *)
(* (internal/buffer/eventhandler.go): Insert / Remove / MultipleReplace /  *)
(* Replace / ApplyDiff build TextEvents, Execute applies them and pushes   *)
(* them on the UndoStack, DoTextEvent relocates every cursor, Undo / Redo  *)
(* move events between the stacks in time buckets.                         *)
(*                                                                         *)
(* Text is a sequence of one-character strings over an ASCII alphabet, so  *)
(* a byte count and a character count agree; NL is the newline.  A line    *)
(* array is a non-empty sequence of lines; line Y of the code is la[Y+1].  *)
(* The line array, Loc arithmetic, the cursor's Goto/Relocate, the stack   *)
(* type and the util predicates live in files of the package that are not  *)
(* part of the sources at hand: they are modelled from the specification's *)
(* description of the Buffer and Cursor collaborators.                     *)
(***************************************************************************)
EXTENDS Integers, Sequences, FiniteSets, TLC

\* ------------------------------------------------------------------ bounds

\* largest number of editing calls (Insert, Remove, MultipleReplace, Replace,
\* ApplyDiff) of one behaviour; undo and redo calls are not limited
MaxEdits == 2
\* largest number of calls on the handler (editing, undo and redo calls) of one
\* behaviour
MaxSteps == 4
\* largest number of times the clock is seen to have advanced between two
\* editing calls of one behaviour
MaxTicks == 1
\* largest number of segments of a diff
MaxSegs == 3
\* largest number of characters a Remove call is asked to remove
MaxRemove == 2
\* largest number of ApplyDiff calls of one behaviour
MaxDiffCalls == 1

\* --------------------------------------------------------- program constants

TextEventInsert == 1
TextEventRemove == -1
TextEventReplace == 0
undoThreshold == 1000

NL == "\n"
SP == " "

\* ------------------------------------------------------------ Loc arithmetic

Min(a, b) == IF a < b THEN a ELSE b
Max(a, b) == IF a > b THEN a ELSE b

L(x, y) == [X |-> x, Y |-> y]

LessThan(a, b) == a.Y < b.Y \/ (a.Y = b.Y /\ a.X < b.X)
GreaterThan(a, b) == LessThan(b, a)
GreaterEqual(a, b) == ~LessThan(a, b)
LessEqual(a, b) == ~LessThan(b, a)

\* util.CharacterCount(la.LineBytes(y)); LineBytes of a line that does not
\* exist is empty
LineLen(la, y) == IF y < 0 \/ y >= Len(la) THEN 0 ELSE Len(la[y + 1])

LinesNum(la) == Len(la)
BufStart == L(0, 0)
BufEnd(la) == L(Len(la[Len(la)]), Len(la) - 1)

\* every position that denotes a place in la
ValidLocs(la) == UNION { { L(x, y) : x \in 0..Len(la[y + 1]) } : y \in 0..(Len(la) - 1) }
IsValidLoc(la, l) == l.Y >= 0 /\ l.Y < Len(la) /\ l.X >= 0 /\ l.X <= Len(la[l.Y + 1])

\* clamp: a position is brought into the buffer's bounds: at or past the end
\* becomes the end, before the start becomes the start, and a column past the
\* end of its line becomes the end of that line
clamp(pos, la) ==
    IF GreaterEqual(pos, BufEnd(la)) THEN BufEnd(la)
    ELSE IF LessThan(pos, BufStart) THEN BufStart
    ELSE L(Max(0, Min(pos.X, LineLen(la, pos.Y))), pos.Y)

\* one character to the right / to the left of l in la
LocRight(l, la) ==
    IF l = BufEnd(la) THEN L(l.X + 1, l.Y)
    ELSE IF l.X < LineLen(la, l.Y) THEN L(l.X + 1, l.Y)
    ELSE L(0, l.Y + 1)

LocLeft(l, la) ==
    IF l = BufStart THEN L(l.X - 1, l.Y)
    ELSE IF l.X > 0 THEN L(l.X - 1, l.Y)
    ELSE L(LineLen(la, l.Y - 1), l.Y - 1)

RECURSIVE MoveRight(_, _, _)
MoveRight(l, n, la) == IF n <= 0 THEN l ELSE MoveRight(LocRight(l, la), n - 1, la)

RECURSIVE MoveLeft(_, _, _)
MoveLeft(l, n, la) == IF n <= 0 THEN l ELSE MoveLeft(LocLeft(l, la), n - 1, la)

\* Loc.MoveLA: l advanced by n characters (backwards when n < 0)
MoveLA(l, n, la) == IF n > 0 THEN MoveRight(l, n, la) ELSE MoveLeft(l, -n, la)

RECURSIVE SumLines(_, _, _)
SumLines(la, i, j) == IF i >= j THEN 0 ELSE LineLen(la, i) + 1 + SumLines(la, i + 1, j)

\* DiffLA: the number of characters between a and b in la
DiffLA(a, b, la) ==
    IF a.Y = b.Y THEN (IF a.X > b.X THEN a.X - b.X ELSE b.X - a.X)
    ELSE LET lo == IF LessThan(b, a) THEN b ELSE a
             hi == IF LessThan(b, a) THEN a ELSE b
         IN  SumLines(la, lo.Y + 1, hi.Y) + LineLen(la, lo.Y) - lo.X + hi.X + 1

\* ------------------------------------------------------------ the line array

RECURSIVE Flatten(_)
Flatten(la) ==
    IF Len(la) = 1 THEN la[1] ELSE la[1] \o <<NL>> \o Flatten(Tail(la))

RECURSIVE SplitLines(_)
SplitLines(txt) ==
    IF \A i \in 1..Len(txt) : txt[i] # NL THEN <<txt>>
    ELSE LET k == CHOOSE i \in 1..Len(txt) :
                      txt[i] = NL /\ \A j \in 1..(i - 1) : txt[j] # NL
         IN  <<SubSeq(txt, 1, k - 1)>> \o SplitLines(SubSeq(txt, k + 1, Len(txt)))

\* the number of characters before l; a column past the end of the line
\* counts as the end of the line
Offset(la, l) == SumLines(la, 0, l.Y) + Max(0, Min(l.X, LineLen(la, l.Y)))

\* buf.insert(pos, text)
BufInsert(la, pos, text) ==
    LET f == Flatten(la)
        o == Offset(la, pos)
    IN  SplitLines(SubSeq(f, 1, o) \o text \o SubSeq(f, o + 1, Len(f)))

\* buf.remove(start, end): the line array without [start, end) and the text
\* that was there
BufRemove(la, start, end) ==
    LET f == Flatten(la)
        s == Offset(la, start)
        e == Max(s, Offset(la, end))
    IN  [la |-> SplitLines(SubSeq(f, 1, s) \o SubSeq(f, e + 1, Len(f))),
         text |-> SubSeq(f, s + 1, e)]

CharacterCount(text) == Len(text)

\* bytes.LastIndex(text, "\n") and bytes.Index(text, "\n"), 0-based, -1 if none
LastIndexNL(text) ==
    IF \A i \in 1..Len(text) : text[i] # NL THEN -1
    ELSE (CHOOSE i \in 1..Len(text) :
              text[i] = NL /\ \A j \in (i + 1)..Len(text) : text[j] # NL) - 1

IndexNL(text) ==
    IF \A i \in 1..Len(text) : text[i] # NL THEN -1
    ELSE (CHOOSE i \in 1..Len(text) :
              text[i] = NL /\ \A j \in 1..(i - 1) : text[j] # NL) - 1

Reverse(s) == [i \in 1..Len(s) |-> s[Len(s) + 1 - i]]

\* util.IsWhitespace, util.IsBytesWhitespace, util.HasTrailingWhitespace
IsWhitespace(c) == c \in {SP, NL}
IsBytesWhitespace(text) == \A i \in 1..Len(text) : IsWhitespace(text[i])
HasTrailingWhitespace(text) == Len(text) > 0 /\ IsWhitespace(text[Len(text)])

\* buf.RuneAt(loc): the character at loc, a newline when there is none
RuneAt(la, loc) ==
    IF loc.Y >= 0 /\ loc.Y < Len(la) /\ loc.X >= 0 /\ loc.X < Len(la[loc.Y + 1])
    THEN la[loc.Y + 1][loc.X + 1] ELSE NL

\* ------------------------------------------------------------------- cursors
\* A cursor: its position Loc, the selection anchors CurSelection and
\* OrigSelection (pairs of positions), its ordinal Num in the cursor list
\* (0-based), the trailing-whitespace line NewTrailingWsY (-1: unset) and
\* the cached visual column LastVisualX.

\* Cursor.Goto(b): position, visual column and selections are taken from b
Goto(c, b) ==
    [c EXCEPT !.Loc = b.Loc, !.LastVisualX = b.LastVisualX,
              !.OrigSelection = b.OrigSelection, !.CurSelection = b.CurSelection]

\* Cursor.Relocate: the position is brought back into the buffer
Relocate(c, la) ==
    LET y == IF c.Loc.Y < 0 THEN 0
             ELSE IF c.Loc.Y >= LinesNum(la) THEN LinesNum(la) - 1 ELSE c.Loc.Y
        x == IF c.Loc.X < 0 THEN 0
             ELSE IF c.Loc.X > LineLen(la, y) THEN LineLen(la, y) ELSE c.Loc.X
    IN  [c EXCEPT !.Loc = L(x, y)]

\* Cursor.StoreVisualX: without tabs or wide characters the visual column is
\* the column
StoreVisualX(c) == [c EXCEPT !.LastVisualX = c.Loc.X]

\* ------------------------------------------------------------------- stacks
\* TEStack: the top is the last element

Push(st, t) == Append(st, t)
Peek(st) == st[Len(st)]
Pop(st) == SubSeq(st, 1, Len(st) - 1)

\* ------------------------------------------------------------- text events
\* A Delta is [Text, Start, End]; a TextEvent is [C, EventType, Deltas, Time],
\* Time in milliseconds (t.Time.UnixNano() / int64(time.Millisecond)).

Delta(text, start, end) == [Text |-> text, Start |-> start, End |-> end]

RECURSIVE InsertDeltas(_, _, _)
InsertDeltas(la, ds, i) ==
    IF i > Len(ds) THEN la
    ELSE InsertDeltas(BufInsert(la, ds[i].Start, ds[i].Text), ds, i + 1)

\* the Remove branch without the capture of the removed text
RECURSIVE RemoveUncaptured(_, _, _)
RemoveUncaptured(la, ds, i) ==
    IF i > Len(ds) THEN [la |-> la, ds |-> ds]
    ELSE RemoveUncaptured(BufRemove(la, ds[i].Start, ds[i].End).la, ds, i + 1)

RECURSIVE RemoveDeltas(_, _, _)
RemoveDeltas(la, ds, i) ==
    IF i > Len(ds) THEN [la |-> la, ds |-> ds]
    ELSE LET r == BufRemove(la, ds[i].Start, ds[i].End)
         IN  RemoveDeltas(r.la, [ds EXCEPT ![i].Text = r.text], i + 1)

\* the End a Replace delta records after it has been applied
ReplaceEnd(d) == L(d.Start.X + CharacterCount(d.Text), d.Start.Y)

\* the Replace branch with the deltas taken from the last to the first
RECURSIVE ReplaceLastFirst(_, _, _)
ReplaceLastFirst(la, ds, i) ==
    IF i > Len(ds) THEN [la |-> la, ds |-> ds]
    ELSE LET j == Len(ds) + 1 - i
             d == ds[j]
             r == BufRemove(la, d.Start, d.End)
         IN  ReplaceLastFirst(BufInsert(r.la, d.Start, d.Text),
                              [ds EXCEPT ![j] = Delta(r.text, d.Start, ReplaceEnd(d))],
                              i + 1)

RECURSIVE ReplaceDeltas(_, _, _)
ReplaceDeltas(la, ds, i) ==
    IF i > Len(ds) THEN [la |-> la, ds |-> ds]
    ELSE LET d == ds[i]
             r == BufRemove(la, d.Start, d.End)
         IN  ReplaceDeltas(BufInsert(r.la, d.Start, d.Text),
                           [ds EXCEPT ![i] = Delta(r.text, d.Start, ReplaceEnd(d))],
                           i + 1)

\* the order of a Replace event's deltas after the event has been applied
ReplaceOrder(ds) == Reverse(ds)

\* ExecuteTextEvent(t, buf): the event and the line array afterwards
ExecuteTextEvent(t, la) ==
    IF t.EventType = TextEventInsert THEN
        [t |-> t, la |-> InsertDeltas(la, t.Deltas, 1)]
    ELSE IF t.EventType = TextEventRemove THEN
        LET r == RemoveDeltas(la, t.Deltas, 1)
        IN  [t |-> [t EXCEPT !.Deltas = r.ds], la |-> r.la]
    ELSE IF t.EventType = TextEventReplace THEN
        LET r == ReplaceDeltas(la, t.Deltas, 1)
        IN  [t |-> [t EXCEPT !.Deltas = ReplaceOrder(r.ds)], la |-> r.la]
    ELSE [t |-> t, la |-> la]

\* ----------------------------------------------------------- the handler
\* An EventHandler is [buf, cursors, active, UndoStack, RedoStack]; active is
\* 0-based, cursors[active + 1] is the cursor that issues the next event.
\* The operations return the handler afterwards; those that work on an event
\* return [eh, t], t being the event as the code has left it (the stacks hold
\* pointers to events, so the event on the stack is that same t).

\* Execute(t) without the clearing of RedoStack
ExecuteKeepRedo(eh, t) ==
    LET r == ExecuteTextEvent(t, eh.buf)
    IN  [eh |-> [eh EXCEPT !.UndoStack = Push(@, r.t),
                           !.buf = r.la],
         t |-> r.t]

\* Execute(t), r being what ExecuteTextEvent(t, eh.buf) leaves
Executed(eh, r) ==
    [eh |-> [eh EXCEPT !.RedoStack = IF Len(@) > 0 THEN <<>> ELSE @,
                       !.UndoStack = Push(@, r.t),
                       !.buf = r.la],
     t |-> r.t]

\* Execute(t)
Execute(eh, t) == Executed(eh, ExecuteTextEvent(t, eh.buf))

\* the closure move with GreaterThan in place of GreaterEqual on the line of
\* start
MoveLocStrict(kind, start, end, lastnl, textX, la, loc) ==
    IF kind = TextEventInsert THEN
        IF start.Y # loc.Y /\ GreaterThan(loc, start) THEN
            L(loc.X, loc.Y + (end.Y - start.Y))
        ELSE IF loc.Y = start.Y /\ GreaterThan(loc, start) THEN
            L(IF lastnl >= 0 THEN loc.X + (textX - start.X) ELSE loc.X + textX,
              loc.Y + (end.Y - start.Y))
        ELSE loc
    ELSE
        IF loc.Y # end.Y /\ GreaterThan(loc, end) THEN
            L(loc.X, loc.Y - (end.Y - start.Y))
        ELSE IF loc.Y = end.Y /\ GreaterEqual(loc, end) THEN
            MoveLA(loc, -DiffLA(start, end, la), la)
        ELSE loc

\* the closure move that, after an insertion of several lines, adds the
\* column of the end of the text without taking off the column of start
MoveLocKeepColumn(kind, start, end, lastnl, textX, la, loc) ==
    IF kind = TextEventInsert THEN
        IF start.Y # loc.Y /\ GreaterThan(loc, start) THEN
            L(loc.X, loc.Y + (end.Y - start.Y))
        ELSE IF loc.Y = start.Y /\ GreaterEqual(loc, start) THEN
            L(loc.X + textX, loc.Y + (end.Y - start.Y))
        ELSE loc
    ELSE
        IF loc.Y # end.Y /\ GreaterThan(loc, end) THEN
            L(loc.X, loc.Y - (end.Y - start.Y))
        ELSE IF loc.Y = end.Y /\ GreaterEqual(loc, end) THEN
            MoveLA(loc, -DiffLA(start, end, la), la)
        ELSE loc

\* the closure move that, after a removal, leaves the positions on the lines
\* after end's line on their lines
MoveLocKeepLine(kind, start, end, lastnl, textX, la, loc) ==
    IF kind = TextEventInsert THEN
        IF start.Y # loc.Y /\ GreaterThan(loc, start) THEN
            L(loc.X, loc.Y + (end.Y - start.Y))
        ELSE IF loc.Y = start.Y /\ GreaterEqual(loc, start) THEN
            L(IF lastnl >= 0 THEN loc.X + (textX - start.X) ELSE loc.X + textX,
              loc.Y + (end.Y - start.Y))
        ELSE loc
    ELSE
        IF loc.Y = end.Y /\ GreaterEqual(loc, end) THEN
            MoveLA(loc, -DiffLA(start, end, la), la)
        ELSE loc

\* the closure move of DoTextEvent
MoveLoc(kind, start, end, lastnl, textX, la, loc) ==
    IF kind = TextEventInsert THEN
        IF start.Y # loc.Y /\ GreaterThan(loc, start) THEN
            L(loc.X, loc.Y + (end.Y - start.Y))
        ELSE IF loc.Y = start.Y /\ GreaterEqual(loc, start) THEN
            L(IF lastnl >= 0 THEN loc.X + (textX - start.X) ELSE loc.X + textX,
              loc.Y + (end.Y - start.Y))
        ELSE loc
    ELSE
        IF loc.Y # end.Y /\ GreaterThan(loc, end) THEN
            L(loc.X, loc.Y - (end.Y - start.Y))
        ELSE IF loc.Y = end.Y /\ GreaterEqual(loc, end) THEN
            MoveLA(loc, -DiffLA(start, end, la), la)
        ELSE loc

\* the body of DoTextEvent's loop for one cursor
MoveCursor(c, kind, start, end, lastnl, textX, la) ==
    LET mv(loc) == MoveLoc(kind, start, end, lastnl, textX, la, loc)
    IN  StoreVisualX(Relocate(
            [c EXCEPT !.Loc = mv(@),
                      !.CurSelection = <<mv(@[1]), mv(@[2])>>,
                      !.OrigSelection = <<mv(@[1]), mv(@[2])>>], la))

\* updateTrailingWs whose insert rule sets the line for every text that ends
\* in whitespace, also whitespace put after whitespace
updateTrailingWsAnyWs(eh, t) ==
    IF Len(t.Deltas) # 1 THEN eh
    ELSE IF /\ t.EventType = TextEventInsert
            /\ eh.cursors[eh.active + 1].Loc = t.Deltas[1].End
            /\ t.Deltas[1].End.X = LineLen(eh.buf, t.Deltas[1].End.Y)
         THEN [eh EXCEPT !.cursors[eh.active + 1].NewTrailingWsY =
                            IF HasTrailingWhitespace(t.Deltas[1].Text) THEN t.Deltas[1].End.Y
                            ELSE -1]
         ELSE eh

\* updateTrailingWs(t)
updateTrailingWs(eh, t) ==
    IF Len(t.Deltas) # 1 THEN eh
    ELSE
    LET text == t.Deltas[1].Text
        start == t.Deltas[1].Start
        end == t.Deltas[1].End
        c == eh.cursors[eh.active + 1]
        isEol(loc) == loc.X = LineLen(eh.buf, loc.Y)
        set(y) == [eh EXCEPT !.cursors[eh.active + 1].NewTrailingWsY = y]
    IN  IF t.EventType = TextEventInsert /\ c.Loc = end /\ isEol(end) THEN
            LET lastnl == LastIndexNL(text)
                addedTrailingWs ==
                    IF start.Y = end.Y THEN HasTrailingWhitespace(text)
                    ELSE HasTrailingWhitespace(SubSeq(text, lastnl + 2, Len(text)))
                addedWsOnly == start.Y = end.Y /\ IsBytesWhitespace(text)
                addedAfterWs == start.Y = end.Y /\ start.X > 0
                                /\ IsWhitespace(RuneAt(eh.buf, L(start.X - 1, start.Y)))
            IN  IF addedTrailingWs /\ ~(addedAfterWs /\ addedWsOnly) THEN set(c.Loc.Y)
                ELSE IF ~addedTrailingWs THEN set(-1)
                ELSE eh
        ELSE IF t.EventType = TextEventRemove /\ c.Loc = start /\ isEol(start) THEN
            LET removedAfterWs ==
                    HasTrailingWhitespace(IF start.Y >= 0 /\ start.Y < Len(eh.buf)
                                          THEN eh.buf[start.Y + 1] ELSE <<>>)
                firstnl == IndexNL(text)
                removedWsOnly ==
                    IF start.Y = end.Y THEN IsBytesWhitespace(text)
                    ELSE IsBytesWhitespace(SubSeq(text, 1, firstnl))
            IN  IF removedAfterWs /\ ~removedWsOnly THEN set(c.Loc.Y)
                ELSE IF ~removedAfterWs THEN set(-1)
                ELSE eh
        ELSE IF c.NewTrailingWsY # -1 /\ start.Y # end.Y /\ GreaterThan(c.Loc, start)
                /\ ((t.EventType = TextEventInsert
                        /\ c.Loc.Y = c.NewTrailingWsY + (end.Y - start.Y))
                    \/ (t.EventType = TextEventRemove
                        /\ c.Loc.Y = c.NewTrailingWsY - (end.Y - start.Y)))
            THEN set(c.Loc.Y)
        ELSE eh

\* the End of an Insert delta with the column always counted from start
InsertEndSameLine(start, text, linecount, la) ==
    clamp(L(start.X + CharacterCount(text), start.Y + linecount), la)

\* the End DoTextEvent gives an applied Insert delta
InsertEnd(start, text, linecount, la) ==
    LET lastnl == LastIndexNL(text)
        endX == IF lastnl >= 0 THEN CharacterCount(SubSeq(text, lastnl + 2, Len(text)))
                ELSE start.X + CharacterCount(text)
    IN  clamp(L(endX, start.Y + linecount), la)

\* DoTextEvent's call of ExecuteTextEvent when useUndo is false, r being what
\* ExecuteTextEvent(t, eh.buf) leaves
Applied(eh, r) == [eh |-> [eh EXCEPT !.buf = r.la], t |-> r.t]

\* DoTextEvent whose loop passes over the active cursor on first execution
RelocatedOthers(oldl, ex, useUndo) ==
    IF Len(ex.t.Deltas) # 1 THEN ex
        ELSE
        LET eh1 == ex.eh
            t1 == ex.t
            text == t1.Deltas[1].Text
            start == t1.Deltas[1].Start
            isIns == t1.EventType = TextEventInsert
            lastnl == IF isIns THEN LastIndexNL(text) ELSE -1
            textX == IF lastnl >= 0
                     THEN CharacterCount(SubSeq(text, lastnl + 2, Len(text)))
                     ELSE IF isIns THEN CharacterCount(text) ELSE 0
            t2 == IF isIns
                  THEN [t1 EXCEPT !.Deltas[1].End =
                            InsertEnd(start, text, LinesNum(eh1.buf) - oldl, eh1.buf)]
                  ELSE t1
            end == t2.Deltas[1].End
            eh2 == [eh1 EXCEPT
                      !.cursors = [i \in 1..Len(@) |->
                          IF useUndo /\ i = eh1.active + 1 THEN @[i]
                          ELSE MoveCursor(@[i], t2.EventType, start, end, lastnl, textX, eh1.buf)],
                      !.UndoStack = IF useUndo THEN Push(Pop(@), t2) ELSE @]
        IN  [eh |-> IF useUndo THEN updateTrailingWs(eh2, t2) ELSE eh2, t |-> t2]

\* DoTextEvent that runs updateTrailingWs on every application of the event,
\* an undo or a redo too
RelocatedWsAlways(oldl, ex, useUndo) ==
    IF Len(ex.t.Deltas) # 1 THEN ex
        ELSE
        LET eh1 == ex.eh
            t1 == ex.t
            text == t1.Deltas[1].Text
            start == t1.Deltas[1].Start
            isIns == t1.EventType = TextEventInsert
            lastnl == IF isIns THEN LastIndexNL(text) ELSE -1
            textX == IF lastnl >= 0
                     THEN CharacterCount(SubSeq(text, lastnl + 2, Len(text)))
                     ELSE IF isIns THEN CharacterCount(text) ELSE 0
            t2 == IF isIns
                  THEN [t1 EXCEPT !.Deltas[1].End =
                            InsertEnd(start, text, LinesNum(eh1.buf) - oldl, eh1.buf)]
                  ELSE t1
            end == t2.Deltas[1].End
            eh2 == [eh1 EXCEPT
                      !.cursors = [i \in 1..Len(@) |->
                          MoveCursor(@[i], t2.EventType, start, end, lastnl, textX, eh1.buf)],
                      !.UndoStack = IF useUndo THEN Push(Pop(@), t2) ELSE @]
        IN  [eh |-> updateTrailingWs(eh2, t2), t |-> t2]

\* DoTextEvent after the event has been executed: ex is [eh, t] as the
\* execution left them, oldl the number of lines before it
Relocated(oldl, ex, useUndo) ==
    IF Len(ex.t.Deltas) # 1 THEN ex
        ELSE
        LET eh1 == ex.eh
            t1 == ex.t
            text == t1.Deltas[1].Text
            start == t1.Deltas[1].Start
            isIns == t1.EventType = TextEventInsert
            lastnl == IF isIns THEN LastIndexNL(text) ELSE -1
            textX == IF lastnl >= 0
                     THEN CharacterCount(SubSeq(text, lastnl + 2, Len(text)))
                     ELSE IF isIns THEN CharacterCount(text) ELSE 0
            t2 == IF isIns
                  THEN [t1 EXCEPT !.Deltas[1].End =
                            InsertEnd(start, text, LinesNum(eh1.buf) - oldl, eh1.buf)]
                  ELSE t1
            end == t2.Deltas[1].End
            eh2 == [eh1 EXCEPT
                      !.cursors = [i \in 1..Len(@) |->
                          MoveCursor(@[i], t2.EventType, start, end, lastnl, textX, eh1.buf)],
                      !.UndoStack = IF useUndo THEN Push(Pop(@), t2) ELSE @]
        IN  [eh |-> IF useUndo THEN updateTrailingWs(eh2, t2) ELSE eh2, t |-> t2]

\* DoTextEvent(t, useUndo)
DoTextEvent(eh, t, useUndo) ==
    Relocated(LinesNum(eh.buf),
              IF useUndo THEN Execute(eh, t)
              ELSE Applied(eh, ExecuteTextEvent(t, eh.buf)),
              useUndo)

\* what an UndoTextEvent that gave the event its kind back would return
FlippedBack(r) == [r EXCEPT !.t.EventType = -@]

\* UndoTextEvent that applies the inverse and leaves the event's kind as it was
UndoTextEventSameKind(eh, t) ==
    FlippedBack(DoTextEvent(eh, [t EXCEPT !.EventType = -@], FALSE))

\* UndoTextEvent(t)
UndoTextEvent(eh, t) == DoTextEvent(eh, [t EXCEPT !.EventType = -@], FALSE)

\* UndoOneEvent and RedoOneEvent without the snapshot restore
RestoreCursorNone(cursors, t) == cursors

\* the snapshot restore with an ordinal past the cursors wrapped around
RestoreCursorWrap(cursors, t) ==
    [cursors EXCEPT ![(t.C.Num % Len(cursors)) + 1] =
        [Goto(@, t.C) EXCEPT !.NewTrailingWsY = t.C.NewTrailingWsY]]

\* the snapshot restore without the trailing-whitespace line
RestoreCursorKeepWs(cursors, t) ==
    IF t.C.Num >= 0 /\ t.C.Num < Len(cursors)
    THEN [cursors EXCEPT ![t.C.Num + 1] = Goto(@, t.C)]
    ELSE cursors

\* the snapshot restore of UndoOneEvent and RedoOneEvent
RestoreCursor(cursors, t) ==
    IF t.C.Num >= 0 /\ t.C.Num < Len(cursors)
    THEN [cursors EXCEPT ![t.C.Num + 1] =
              [Goto(@, t.C) EXCEPT !.NewTrailingWsY = t.C.NewTrailingWsY]]
    ELSE cursors

\* the end of an UndoOneEvent that does not keep the event it has undone
PushRedoDropped(r) == [r.eh EXCEPT !.cursors = RestoreCursor(@, r.t)]

\* the end of UndoOneEvent, r being [eh, t] as UndoTextEvent left them
PushRedo(r) ==
    [r.eh EXCEPT !.cursors = RestoreCursor(@, r.t),
                 !.RedoStack = Push(@, r.t)]

\* UndoOneEvent()
UndoOneEvent(eh) ==
    IF Len(eh.UndoStack) = 0 THEN eh
    ELSE PushRedo(UndoTextEvent([eh EXCEPT !.UndoStack = Pop(@)], Peek(eh.UndoStack)))

\* the end of RedoOneEvent, r being [eh, t] as UndoTextEvent left them
PushUndo(r) == [r.eh EXCEPT !.UndoStack = Push(@, r.t)]

\* the end of a RedoOneEvent that restores last
PushUndoRestored(r) ==
    [r.eh EXCEPT !.cursors = RestoreCursor(@, r.t),
                 !.UndoStack = Push(@, r.t)]

\* RedoOneEvent that sets the cursor to the snapshot after the event has been
\* applied again, as UndoOneEvent does
RedoOneEventRestoreAfter(eh) ==
    IF Len(eh.RedoStack) = 0 THEN eh
    ELSE PushUndoRestored(UndoTextEvent([eh EXCEPT !.RedoStack = Pop(@)],
                                        Peek(eh.RedoStack)))

\* RedoOneEvent()
RedoOneEvent(eh) ==
    IF Len(eh.RedoStack) = 0 THEN eh
    ELSE PushUndo(UndoTextEvent([eh EXCEPT !.RedoStack = Pop(@),
                                           !.cursors = RestoreCursor(@, Peek(eh.RedoStack))],
                                Peek(eh.RedoStack)))

\* the end time of Undo one bucket earlier
UndoEndTimeWide(startTime) == startTime - (startTime % undoThreshold) - undoThreshold

\* the time below which Undo stops, from the top event's time
UndoEndTime(startTime) == startTime - (startTime % undoThreshold)

\* the end time of Redo that lets in the whole of the next bucket
RedoEndTimeBucket(startTime) ==
    startTime - (startTime % undoThreshold) + 2 * undoThreshold - 1

\* the time above which Redo stops, from the top event's time
RedoEndTime(startTime) == startTime - (startTime % undoThreshold) + undoThreshold

\* the loop of Undo that stops after one event
UndoLoopOnce(eh, endTime) ==
    IF Len(eh.UndoStack) = 0 THEN eh ELSE UndoOneEvent(eh)

RECURSIVE UndoLoop(_, _)
UndoLoop(eh, endTime) ==
    IF Len(eh.UndoStack) = 0 THEN eh
    ELSE IF Peek(eh.UndoStack).Time < endTime THEN eh
    ELSE UndoLoop(UndoOneEvent(eh), endTime)

\* Undo() that returns true on an empty UndoStack too
UndoTrue(eh) ==
    [eh |-> IF Len(eh.UndoStack) = 0 THEN eh
            ELSE UndoLoop(eh, UndoEndTime(Peek(eh.UndoStack).Time)),
     ret |-> TRUE]

\* Undo(): the handler afterwards and the value returned
Undo(eh) ==
    IF Len(eh.UndoStack) = 0 THEN [eh |-> eh, ret |-> FALSE]
    ELSE [eh |-> UndoLoop(eh, UndoEndTime(Peek(eh.UndoStack).Time)), ret |-> TRUE]

RECURSIVE RedoLoop(_, _)
RedoLoop(eh, endTime) ==
    IF Len(eh.RedoStack) = 0 THEN eh
    ELSE IF Peek(eh.RedoStack).Time > endTime THEN eh
    ELSE RedoLoop(RedoOneEvent(eh), endTime)

\* Redo(): the handler afterwards and the value returned
Redo(eh) ==
    IF Len(eh.RedoStack) = 0 THEN [eh |-> eh, ret |-> FALSE]
    ELSE [eh |-> RedoLoop(eh, RedoEndTime(Peek(eh.RedoStack).Time)), ret |-> TRUE]

\* Insert without the clamping of start
InsertUnclamped(eh, start, text, tm) ==
    IF Len(text) = 0 THEN eh
    ELSE LET e == [C |-> eh.cursors[eh.active + 1], EventType |-> TextEventInsert,
                   Deltas |-> <<Delta(text, start, L(0, 0))>>, Time |-> tm]
         IN  DoTextEvent(eh, e, TRUE).eh

\* Insert that executes its event without recording it
InsertUnrecorded(eh, start, text, tm) ==
    IF Len(text) = 0 THEN eh
    ELSE LET st == clamp(start, eh.buf)
             e == [C |-> eh.cursors[eh.active + 1], EventType |-> TextEventInsert,
                   Deltas |-> <<Delta(text, st, L(0, 0))>>, Time |-> tm]
         IN  DoTextEvent(eh, e, FALSE).eh

\* Insert(start, text) / InsertBytes(start, text) at time tm
Insert(eh, start, text, tm) ==
    IF Len(text) = 0 THEN eh
    ELSE LET st == clamp(start, eh.buf)
             e == [C |-> eh.cursors[eh.active + 1], EventType |-> TextEventInsert,
                   Deltas |-> <<Delta(text, st, L(0, 0))>>, Time |-> tm]
         IN  DoTextEvent(eh, e, TRUE).eh

\* Remove without the test for an empty range
RemoveUnchecked(eh, start, end, tm) ==
    LET st == clamp(start, eh.buf)
        en == clamp(end, eh.buf)
        e == [C |-> eh.cursors[eh.active + 1], EventType |-> TextEventRemove,
              Deltas |-> <<Delta(<<>>, st, en)>>, Time |-> tm]
    IN  DoTextEvent(eh, e, TRUE).eh

\* Remove(start, end) at time tm
Remove(eh, start, end, tm) ==
    IF start = end THEN eh
    ELSE LET st == clamp(start, eh.buf)
             en == clamp(end, eh.buf)
             e == [C |-> eh.cursors[eh.active + 1], EventType |-> TextEventRemove,
                   Deltas |-> <<Delta(<<>>, st, en)>>, Time |-> tm]
         IN  DoTextEvent(eh, e, TRUE).eh

\* MultipleReplace(deltas) at time tm
MultipleReplace(eh, deltas, tm) ==
    LET e == [C |-> eh.cursors[eh.active + 1], EventType |-> TextEventReplace,
              Deltas |-> deltas, Time |-> tm]
    IN  Execute(eh, e).eh

\* Replace that does nothing when the range is empty
ReplaceSkipEmpty(eh, start, end, replace, tm) ==
    IF start = end THEN eh
    ELSE Insert(Remove(eh, start, end, tm), start, replace, tm)

\* Replace that inserts first and removes afterwards
ReplaceInsertFirst(eh, start, end, replace, tm) ==
    Remove(Insert(eh, start, replace, tm), start, end, tm)

\* Replace(start, end, replace) at time tm
Replace(eh, start, end, replace, tm) ==
    Insert(Remove(eh, start, end, tm), start, replace, tm)

\* ApplyDiff's loc moved over the n characters of an equal or insert segment
Advanced(eh, loc, n) == [eh |-> eh, loc |-> MoveLA(loc, n, eh.buf)]

\* the loop body of ApplyDiff with loc left where it is after an insert segment
DiffStepStill(st, d, tm) ==
    LET n == CharacterCount(d.Text)
    IN  IF d.Type = "delete" THEN
            [st EXCEPT !.eh = Remove(st.eh, st.loc, MoveLA(st.loc, n, st.eh.buf), tm)]
        ELSE IF d.Type = "insert" THEN [st EXCEPT !.eh = Insert(st.eh, st.loc, d.Text, tm)]
        ELSE [st EXCEPT !.loc = MoveLA(st.loc, n, st.eh.buf)]

\* ApplyDiff(new): diff is the diff of the buffer's content and new, a sequence
\* of segments [Type, Text] with Type "equal", "delete" or "insert"; st is
\* [eh, loc], the handler and ApplyDiff's loc
DiffStep(st, d, tm) ==
    IF d.Type = "delete" THEN
        [st EXCEPT !.eh = Remove(st.eh, st.loc,
                                 MoveLA(st.loc, CharacterCount(d.Text), st.eh.buf), tm)]
    ELSE Advanced(IF d.Type = "insert" THEN Insert(st.eh, st.loc, d.Text, tm) ELSE st.eh,
                  st.loc, CharacterCount(d.Text))

RECURSIVE ApplyDiffFrom(_, _, _, _)
ApplyDiffFrom(st, diff, i, tm) ==
    IF i > Len(diff) THEN st
    ELSE ApplyDiffFrom(DiffStep(st, diff[i], tm), diff, i + 1, tm)

\* ApplyDiff that drops the undone events whatever the diff is
ApplyDiffFresh(eh, diff, tm) ==
    [ApplyDiffFrom([eh |-> eh, loc |-> BufStart], diff, 1, tm).eh EXCEPT !.RedoStack = <<>>]

ApplyDiff(eh, diff, tm) ==
    ApplyDiffFrom([eh |-> eh, loc |-> BufStart], diff, 1, tm).eh

\* differ.DiffMain(current, new, false) returns some diff of the two texts:
\* every sequence of at most n non-empty segments whose equal and delete
\* texts make up cur and whose equal and insert texts make up new
RECURSIVE Diffs(_, _, _)
Diffs(cur, new, n) ==
    (IF cur = <<>> /\ new = <<>> THEN {<<>>} ELSE {}) \cup
    (IF n = 0 THEN {}
     ELSE UNION {
        UNION { { <<[Type |-> "equal", Text |-> SubSeq(cur, 1, k)]>> \o r :
                    r \in Diffs(SubSeq(cur, k + 1, Len(cur)), SubSeq(new, k + 1, Len(new)), n - 1) } :
                k \in { j \in 1..Min(Len(cur), Len(new)) : SubSeq(cur, 1, j) = SubSeq(new, 1, j) } },
        UNION { { <<[Type |-> "delete", Text |-> SubSeq(cur, 1, k)]>> \o r :
                    r \in Diffs(SubSeq(cur, k + 1, Len(cur)), new, n - 1) } :
                k \in 1..Len(cur) },
        UNION { { <<[Type |-> "insert", Text |-> SubSeq(new, 1, k)]>> \o r :
                    r \in Diffs(cur, SubSeq(new, k + 1, Len(new)), n - 1) } :
                k \in 1..Len(new) } })

\* -------------------------------------------------------------------- state

VARIABLES
    buf,        \* eh.buf: the line array
    cursors,    \* eh.cursors: the buffer's cursors (shared with the buffer)
    active,     \* eh.active: the ordinal of the cursor that issues events
    UndoStack,  \* eh.UndoStack
    RedoStack,  \* eh.RedoStack
    now,        \* the time of the last editing call, as time.Now() gave it, in
                \* milliseconds
    ret,        \* what the last Undo() or Redo() returned: "true", "false"; "none" otherwise
    snaps,      \* history: snaps[i] is [buf, cursors] as they were before the
                \* i-th event of UndoStack \o Reverse(RedoStack) was first executed
    last,       \* history: [op, n, prev, dropped]: the last call, the number of
                \* events it executed, the call before it and the number of
                \* events it dropped from RedoStack
    arg,        \* history: [new, diff, deltas, start, end]: what the last call was
                \* given, if it was an editing call: its text, the diff ApplyDiff
                \* worked from, its deltas, its positions
    run,        \* history: [phase, depth]: "edits" while the last calls were editing
                \* calls that executed events, "undoing" while UndoOneEvent calls undo
                \* them; depth is the number of those events not yet undone
    pre,        \* history: [valid, eh]: the handler before the last Undo(), kept
                \* while the state is the result of that Undo() or of Undo(); Redo()
    edits,      \* the number of editing calls so far
    steps,      \* the number of calls on the handler so far
    ticks,      \* the number of editing calls that saw the clock advanced
    groups      \* history: [stack, set, expect]: the buffer and the two stacks
                \* as they were before each Undo() not yet answered by a Redo(),
                \* and, after a Redo(), the ones of the Undo() that it answers

vars == <<buf, cursors, active, UndoStack, RedoStack, now, ret,
          snaps, last, arg, run, pre, edits, steps, ticks, groups>>

EH == [buf |-> buf, cursors |-> cursors, active |-> active,
       UndoStack |-> UndoStack, RedoStack |-> RedoStack]

Become(eh) ==
    /\ buf' = eh.buf
    /\ cursors' = eh.cursors
    /\ active' = eh.active
    /\ UndoStack' = eh.UndoStack
    /\ RedoStack' = eh.RedoStack

NoEH == [buf |-> <<<<>>>>, cursors |-> <<>>, active |-> 0,
         UndoStack |-> <<>>, RedoStack |-> <<>>]
NoPre == [valid |-> FALSE, eh |-> NoEH]
Idle == [phase |-> "idle", depth |-> 0]
NoArg == [new |-> <<>>, diff |-> <<>>, deltas |-> <<>>,
          start |-> [X |-> 0, Y |-> 0], end |-> [X |-> 0, Y |-> 0]]

NewCursor(num, loc, anchor) ==
    [Loc |-> loc, CurSelection |-> <<anchor, loc>>, OrigSelection |-> <<loc, anchor>>,
     Num |-> num, NewTrailingWsY |-> -1, LastVisualX |-> loc.X]

InitBuf == << <<"a", "b">>, <<"c">> >>

\* the texts Insert is called with
InsertTexts == { <<"x">>, <<"x", NL, "y">> }

\* the positions the calls are given: every position of the buffer, and one
\* past its end
InputLocs(la) == ValidLocs(la) \cup { L(0, Len(la)) }

\* the ranges Remove is called with: start <= end, at most MaxRemove characters
\* apart
RemoveRanges(la) ==
    { r \in InputLocs(la) \X InputLocs(la) :
        /\ LessEqual(r[1], r[2])
        /\ DiffLA(clamp(r[1], la), clamp(r[2], la), la) <= MaxRemove }

\* the snapshots of an editing call: trace is the sequence of handlers the call
\* went through, each step executing at most one event
RECURSIVE SnapsAfter(_, _, _)
SnapsAfter(sn, trace, i) ==
    IF i >= Len(trace) THEN sn
    ELSE SnapsAfter(
            IF Len(trace[i + 1].UndoStack) > Len(trace[i].UndoStack)
            THEN Append(SubSeq(sn, 1, Len(trace[i].UndoStack)),
                        [buf |-> trace[i].buf, cursors |-> trace[i].cursors])
            ELSE sn,
            trace, i + 1)

\* the times an editing call may read from the clock: the time of the last
\* call, or that advanced by one of dts
Clock(dts) ==
    {now} \cup (IF ticks < MaxTicks /\ Len(UndoStack) + Len(RedoStack) > 0
                THEN { now + dt : dt \in dts } ELSE {})

\* what a Redo() has to bring back: the buffer and the two stacks
Marks == [buf |-> buf, UndoStack |-> UndoStack, RedoStack |-> RedoStack]
NoMarks == [buf |-> <<>>, UndoStack |-> <<>>, RedoStack |-> <<>>]
NoGroups == [stack |-> <<>>, set |-> FALSE, expect |-> NoMarks]

\* an Undo() that undoes something opens a group, a Redo() that re-applies
\* something answers the last group still open, any other call closes them all
GroupsAfter(op) ==
    IF op = "Undo"
    THEN IF Len(UndoStack) > 0
         THEN [stack |-> Append(groups.stack, Marks), set |-> FALSE, expect |-> NoMarks]
         ELSE [groups EXCEPT !.set = FALSE, !.expect = NoMarks]
    ELSE IF op = "Redo" /\ Len(RedoStack) > 0 /\ Len(groups.stack) > 0
         THEN [stack |-> Pop(groups.stack), set |-> TRUE, expect |-> Peek(groups.stack)]
         ELSE NoGroups

\* an editing call op at time tm that took the handler through trace
Edited(op, trace, tm, given) ==
    LET eh == trace[Len(trace)]
        n == Len(eh.UndoStack) - Len(UndoStack)
    IN  /\ Become(eh)
        /\ snaps' = SnapsAfter(snaps, trace, 1)
        /\ last' = [op |-> op, n |-> n, prev |-> last.op,
                     dropped |-> Len(RedoStack) - Len(eh.RedoStack)]
        /\ arg' = given
        /\ run' = IF n = 0 THEN Idle
                  ELSE [phase |-> "edits",
                        depth |-> n + (IF run.phase = "edits" THEN run.depth ELSE 0)]
        /\ pre' = NoPre
        /\ groups' = NoGroups
        /\ ret' = "none"
        /\ edits' = edits + 1
        /\ steps' = steps + 1
        /\ now' = tm
        /\ ticks' = IF tm > now THEN ticks + 1 ELSE ticks

CanEdit == edits < MaxEdits /\ steps < MaxSteps

\* the handler with cursor a made the active one, as the buffer does before
\* it calls the handler
WithActive(a) == [EH EXCEPT !.active = a]

\* -------------------------------------------------------------- operations

InsertAct(locs, texts, dts) ==
    /\ CanEdit
    /\ \E a \in 0..(Len(cursors) - 1), pos \in locs, text \in texts, tm \in Clock(dts) :
          Edited("Insert", <<WithActive(a), Insert(WithActive(a), pos, text, tm)>>, tm,
                 [NoArg EXCEPT !.start = pos, !.new = text])

RemoveAct(ranges, dts) ==
    /\ CanEdit
    /\ \E a \in 0..(Len(cursors) - 1), r \in ranges, tm \in Clock(dts) :
          Edited("Remove", <<WithActive(a), Remove(WithActive(a), r[1], r[2], tm)>>, tm,
                 [NoArg EXCEPT !.start = r[1], !.end = r[2]])

MultipleReplaceAct(deltaSeqs, dts) ==
    /\ CanEdit
    /\ \E a \in 0..(Len(cursors) - 1), ds \in deltaSeqs, tm \in Clock(dts) :
          Edited("MultipleReplace",
                 <<WithActive(a), MultipleReplace(WithActive(a), ds, tm)>>, tm,
                 [NoArg EXCEPT !.deltas = ds])

\* Replace(start, end, replace): the handler goes through the state Remove
\* leaves
ReplaceAct(ranges, texts, dts) ==
    /\ CanEdit
    /\ \E a \in 0..(Len(cursors) - 1), r \in ranges, text \in texts, tm \in Clock(dts) :
          Edited("Replace",
                 <<WithActive(a), Remove(WithActive(a), r[1], r[2], tm),
                   Replace(WithActive(a), r[1], r[2], text, tm)>>, tm,
                 [NoArg EXCEPT !.start = r[1], !.end = r[2], !.new = text])

UndoneGhost(op) ==
    /\ last' = [op |-> op, n |-> 0, prev |-> last.op, dropped |-> 0]
    /\ groups' = GroupsAfter(op)
    /\ arg' = NoArg
    /\ steps' = steps + 1
    /\ UNCHANGED <<now, snaps, edits, ticks>>

\* Undo() or Redo() has returned r: the handler and the value
Returned(r) ==
    /\ Become(r.eh)
    /\ ret' = IF r.ret THEN "true" ELSE "false"

UndoAct ==
    /\ steps < MaxSteps
    /\ Returned(Undo(EH))
    /\ pre' = [valid |-> TRUE, eh |-> EH]
    /\ run' = Idle
    /\ UndoneGhost("Undo")

RedoAct ==
    /\ steps < MaxSteps
    /\ Returned(Redo(EH))
    /\ pre' = IF last.op = "Undo" THEN pre ELSE NoPre
    /\ run' = Idle
    /\ UndoneGhost("Redo")

UndoOneEventAct ==
    /\ steps < MaxSteps
    /\ Become(UndoOneEvent(EH))
    /\ ret' = "none"
    /\ pre' = NoPre
    /\ run' = IF run.phase \in {"edits", "undoing"} /\ run.depth > 0
              THEN [phase |-> "undoing", depth |-> run.depth - 1]
              ELSE Idle
    /\ UndoneGhost("UndoOneEvent")

RedoOneEventAct ==
    /\ steps < MaxSteps
    /\ Become(RedoOneEvent(EH))
    /\ ret' = "none"
    /\ pre' = NoPre
    /\ run' = Idle
    /\ UndoneGhost("RedoOneEvent")

\* ------------------------------------------------- the editing specification

\* the deltas MultipleReplace is called with: one replacement of one
\* character, or that and the same replacement of the last character of the
\* text as the first has left it
ReplaceTexts == { <<"z">>, <<"z", NL>> }
OneCharRanges(la) ==
    { r \in ValidLocs(la) \X ValidLocs(la) : r[1] # r[2] /\ r[2] = MoveLA(r[1], 1, la) }
ReplaceDeltas1(la) ==
    { <<Delta(tx, r[1], r[2])>> : tx \in ReplaceTexts, r \in OneCharRanges(la) }
ReplaceInputs(la) ==
    ReplaceDeltas1(la) \cup
    { d1 \o <<Delta(d1[1].Text, MoveLA(BufEnd(ReplaceDeltas(la, d1, 1).la), -1,
                                       ReplaceDeltas(la, d1, 1).la),
                    BufEnd(ReplaceDeltas(la, d1, 1).la))>> :
        d1 \in ReplaceDeltas1(la) }

\* a handler that has executed nothing yet
InitCommon ==
    /\ active = 0
    /\ UndoStack = <<>>
    /\ RedoStack = <<>>
    /\ ret = "none"
    /\ snaps = <<>>
    /\ last = [op |-> "none", n |-> 0, prev |-> "none", dropped |-> 0]
    /\ arg = NoArg
    /\ run = Idle
    /\ pre = NoPre
    /\ edits = 0
    /\ steps = 0
    /\ ticks = 0
    /\ groups = NoGroups

Init ==
    /\ InitCommon
    /\ buf = InitBuf
    /\ now = 0
    /\ \E l1 \in { L(2, 0), L(1, 1) } :
          cursors = << NewCursor(0, L(1, 0), L(0, 0)), NewCursor(1, l1, L(0, 1)) >>

\* between two editing calls the clock stands still or advances by more than
\* undoThreshold
EditSteps == { undoThreshold + 500 }

Next ==
    \/ InsertAct(InputLocs(buf), InsertTexts, EditSteps)
    \/ RemoveAct(RemoveRanges(buf), EditSteps)
    \/ UndoAct
    \/ RedoAct
    \/ UndoOneEventAct
    \/ RedoOneEventAct

Spec == Init /\ [][Next]_vars

\* --------------------------------------------- the replacing specification

InitReplace ==
    /\ InitCommon
    /\ buf = InitBuf
    /\ now = 0
    /\ cursors = << NewCursor(0, L(1, 0), L(0, 0)), NewCursor(1, L(1, 1), L(0, 1)) >>

NextReplace ==
    \/ MultipleReplaceAct(ReplaceInputs(buf), EditSteps)
    \/ InsertAct({BufStart, BufEnd(buf)}, {<<"x">>}, EditSteps)
    \/ RemoveAct({<<BufStart, MoveLA(BufStart, 1, buf)>>}, EditSteps)
    \/ UndoAct
    \/ RedoAct
    \/ UndoOneEventAct
    \/ RedoOneEventAct

SpecReplace == InitReplace /\ [][NextReplace]_vars

\* ------------------------------------------------ the timing specification

\* the times the handler may be constructed at
InitTimes == { 0, 700 }

\* what the clock may advance by between two editing calls
TimeSteps == { 500, undoThreshold, undoThreshold + 500 }

InitTime ==
    /\ InitCommon
    /\ buf = InitBuf
    /\ now \in InitTimes
    /\ cursors = << NewCursor(0, L(1, 0), L(0, 0)), NewCursor(1, L(1, 1), L(0, 1)) >>

NextTime ==
    \/ InsertAct({BufStart, BufEnd(buf)}, {<<"x">>}, TimeSteps)
    \/ UndoAct
    \/ RedoAct
    \/ UndoOneEventAct

SpecTime == InitTime /\ [][NextTime]_vars

\* ------------------------------------------------- the diffing specification

\* the contents the buffer is constructed with and the texts ApplyDiff is
\* called with
DiffTexts ==
    { <<>>, <<"a">>, <<NL>>, <<"a", "b", "c">>, <<"a", NL, "c">>,
      <<"a", "b", NL, "c">>, <<"c", NL, "a", "b">>, <<"a", "b", NL, "c", NL>> }

\* ApplyDiff(new) at a time of Clock(dts), from one of the diffs DiffMain may
\* return; the handler goes through one state for each segment of the diff
ApplyDiffAct(texts, dts) ==
    /\ edits < MaxDiffCalls
    /\ steps < MaxSteps
    /\ \E a \in 0..(Len(cursors) - 1), new \in texts, tm \in Clock(dts) :
          \E diff \in Diffs(Flatten(buf), new, MaxSegs) :
              Edited("ApplyDiff",
                     <<WithActive(a)>> \o
                        [i \in 1..Len(diff) |->
                            ApplyDiff(WithActive(a), SubSeq(diff, 1, i), tm)],
                     tm, [NoArg EXCEPT !.new = new, !.diff = diff])

InitDiff ==
    /\ InitCommon
    /\ buf \in { SplitLines(txt) : txt \in DiffTexts }
    /\ now = 0
    /\ cursors = << NewCursor(0, BufStart, BufEnd(buf)), NewCursor(1, BufEnd(buf), BufStart) >>

NextDiff ==
    \/ ApplyDiffAct(DiffTexts, EditSteps)
    \/ UndoOneEventAct
    \/ RedoOneEventAct
    \/ UndoAct

SpecDiff == InitDiff /\ [][NextDiff]_vars

\* ------------------------------------------- the edge-case specification

\* positions outside the buffer: a column before the line, a column past the
\* end of the first line, a line past the last line
OutLocs(la) == { L(-1, 0), L(LineLen(la, 0) + 3, 0), L(0, Len(la)) }

\* the positions of the edge-case calls: the start, a position inside the
\* first line, the end, and the positions outside
EdgeLocs(la) == { BufStart, clamp(L(1, 0), la), BufEnd(la) } \cup OutLocs(la)

\* Insert is called with an empty text too
EdgeTexts == { <<>>, <<"x">> }

\* the ranges Remove and Replace are called with: start <= end, both inside or
\* outside the buffer, at most MaxRemove characters of the buffer between them
EdgeRanges(la) ==
    { r \in EdgeLocs(la) \X EdgeLocs(la) :
        /\ LessEqual(r[1], r[2])
        /\ LessEqual(clamp(r[1], la), clamp(r[2], la))
        /\ DiffLA(clamp(r[1], la), clamp(r[2], la), la) <= MaxRemove }

InitEdge ==
    /\ InitCommon
    /\ buf = InitBuf
    /\ now = 0
    /\ cursors = << NewCursor(0, L(1, 0), L(0, 0)), NewCursor(1, L(1, 1), L(0, 1)) >>

NextEdge ==
    \/ InsertAct(EdgeLocs(buf), EdgeTexts, EditSteps)
    \/ RemoveAct(EdgeRanges(buf), EditSteps)
    \/ ReplaceAct(EdgeRanges(buf), EdgeTexts, EditSteps)
    \/ UndoAct
    \/ UndoOneEventAct

SpecEdge == InitEdge /\ [][NextEdge]_vars

\* ---------------------------------------- the cursor-closing specification

\* the buffer closes its last cursor: the handler's cursor list loses it, and
\* the active cursor is one of those left
CloseCursorAct ==
    /\ steps < MaxSteps
    /\ Len(cursors) > 1
    /\ cursors' = SubSeq(cursors, 1, Len(cursors) - 1)
    /\ active' = Min(active, Len(cursors) - 2)
    /\ UNCHANGED <<buf, UndoStack, RedoStack>>
    /\ ret' = "none"
    /\ pre' = NoPre
    /\ run' = Idle
    /\ UndoneGhost("CloseCursor")

NextClose ==
    \/ InsertAct({BufStart, BufEnd(buf)}, InsertTexts, EditSteps)
    \/ RemoveAct({<<BufStart, MoveLA(BufStart, 1, buf)>>}, EditSteps)
    \/ CloseCursorAct
    \/ UndoAct
    \/ RedoAct
    \/ UndoOneEventAct
    \/ RedoOneEventAct

SpecClose == InitEdge /\ [][NextClose]_vars

\* ------------------------------------------- the replace-all specification

\* the content that is searched, the one-character words that are searched
\* for and the replacements
SearchBuf == << <<"f", "f">>, <<"a", "f", "a", "f">> >>
SearchWords == { "f", "a" }
SearchTexts == { <<>>, <<"z", "z">>, <<"f", "z">> }

\* the positions of w in la from (x, y) on, in the order of the text
RECURSIVE Occurrences(_, _, _, _)
Occurrences(la, w, x, y) ==
    IF y >= Len(la) THEN <<>>
    ELSE IF x >= Len(la[y + 1]) THEN Occurrences(la, w, 0, y + 1)
    ELSE (IF la[y + 1][x + 1] = w THEN <<L(x, y)>> ELSE <<>>)
            \o Occurrences(la, w, x + 1, y)

\* the deltas a replace-all of w by text gives MultipleReplace: one for each
\* occurrence, in the order of the text, at the position the occurrence has
\* once the earlier occurrences of its line are replaced
ReplaceAllDeltas(la, w, text) ==
    LET occ == Occurrences(la, w, 0, 0)
        before(i) == Cardinality({ j \in 1..(i - 1) : occ[j].Y = occ[i].Y })
        x(i) == occ[i].X + before(i) * (Len(text) - 1)
    IN  [i \in 1..Len(occ) |-> Delta(text, L(x(i), occ[i].Y), L(x(i) + 1, occ[i].Y))]

InitSearch ==
    /\ InitCommon
    /\ buf = SearchBuf
    /\ now = 0
    /\ cursors = << NewCursor(0, L(1, 0), L(0, 0)), NewCursor(1, L(1, 1), L(0, 1)) >>

NextSearch ==
    \/ MultipleReplaceAct({ ReplaceAllDeltas(buf, w, text) : w \in SearchWords,
                                                             text \in SearchTexts },
                          EditSteps)
    \/ UndoOneEventAct
    \/ UndoAct
    \/ RedoAct

SpecSearch == InitSearch /\ [][NextSearch]_vars

\* ----------------------------------------------- the grouping specification

\* how many keystrokes are typed before and between the Undo() and Redo() calls
MaxTypes == 3

\* what the clock may advance by between two keystrokes
TypeSteps == { 0, 500, undoThreshold, undoThreshold + 500 }

\* the handler has become eh by an Insert at time tm
Typed(eh, tm) ==
    /\ Become(eh)
    /\ snaps' = SnapsAfter(snaps, <<WithActive(0), eh>>, 1)
    /\ last' = [op |-> "Insert", n |-> Len(eh.UndoStack) - Len(UndoStack),
                 prev |-> last.op, dropped |-> Len(RedoStack) - Len(eh.RedoStack)]
    /\ now' = tm
    /\ ticks' = IF tm > now THEN ticks + 1 ELSE ticks

\* a keystroke: one character inserted at the end of the buffer by the first
\* cursor, the clock having advanced by one of dts since the last one
TypeAct(dts) ==
    /\ edits < MaxTypes
    /\ \E dt \in dts : Typed(Insert(WithActive(0), BufEnd(buf), <<"x">>, now + dt), now + dt)
    /\ arg' = NoArg
    /\ run' = Idle
    /\ pre' = NoPre
    /\ groups' = NoGroups
    /\ ret' = "none"
    /\ edits' = edits + 1
    /\ UNCHANGED steps

NextGroups ==
    \/ TypeAct(TypeSteps)
    \/ UndoAct
    \/ RedoAct

SpecGroups == InitTime /\ [][NextGroups]_vars

\* --------------------------------------------- the relocation specification

\* how many calls are made on the handler: an editing call, its undo and its
\* redo, or two editing calls and the undo of the second
MaxMoves == 3

NextMove ==
    /\ steps < MaxMoves
    /\ \/ InsertAct(InputLocs(buf), InsertTexts, EditSteps)
       \/ RemoveAct(RemoveRanges(buf), EditSteps)
       \/ UndoOneEventAct
       \/ RedoOneEventAct

SpecMove == Init /\ [][NextMove]_vars

\* ----------------------------------------------- the snapshot specification

\* the texts Insert is called with: a space, which makes trailing whitespace
\* at the end of a line, and a letter, which ends it
SnapTexts == { <<SP>>, <<"x">> }

NextSnap ==
    /\ steps < MaxMoves
    /\ \/ InsertAct(InputLocs(buf), SnapTexts, EditSteps)
       \/ RemoveAct(RemoveRanges(buf), EditSteps)
       \/ UndoOneEventAct
       \/ RedoOneEventAct
       \/ UndoAct
       \/ RedoAct

SpecSnap == Init /\ [][NextSnap]_vars

\* ------------------------------------------ the same-content specification

\* ApplyDiff(new) with new the content the buffer has: DiffMain returns equal
\* segments only, none for the empty content
ApplySameAct ==
    /\ steps < MaxSteps
    /\ \E a \in 0..(Len(cursors) - 1), tm \in Clock(EditSteps) :
          \E diff \in { d \in Diffs(Flatten(buf), Flatten(buf), MaxSegs) :
                            \A i \in 1..Len(d) : d[i].Type = "equal" } :
              Edited("ApplyDiff", <<WithActive(a), ApplyDiff(WithActive(a), diff, tm)>>,
                     tm, [NoArg EXCEPT !.new = Flatten(buf), !.diff = diff])

\* the texts ApplyDiff is called with before it is called with the content
SameTexts == { <<>>, <<"a", NL, "c">>, <<"c", NL, "a", "b">> }

NextSame ==
    /\ steps < MaxMoves
    /\ \/ ApplyDiffAct(SameTexts, EditSteps)
       \/ ApplySameAct
       \/ UndoOneEventAct

SpecSame == InitReplace /\ [][NextSame]_vars

\* ------------------------------------------ the bookkeeping specification

\* calls that add and take away whitespace at the end of a line, replacements
\* of one and two deltas, and undos and redos of their events
NextScope ==
    /\ steps < MaxMoves
    /\ \/ InsertAct(InputLocs(buf), SnapTexts, EditSteps)
       \/ RemoveAct(RemoveRanges(buf), EditSteps)
       \/ MultipleReplaceAct(ReplaceInputs(buf), EditSteps)
       \/ UndoOneEventAct
       \/ RedoOneEventAct

SpecScope == Init /\ [][NextScope]_vars

\* --------------------------------------------- the line-tracking specification

\* the handler as it is constructed, with the second cursor at the end of the
\* first line, and as it is after that cursor has typed a line break and a
\* space: the cursor is at the end of the line " " and its trailing-whitespace
\* line is that line
LinesStart ==
    [buf |-> InitBuf,
     cursors |-> << NewCursor(0, L(1, 0), L(0, 0)), NewCursor(1, L(2, 0), L(2, 0)) >>,
     active |-> 1, UndoStack |-> <<>>, RedoStack |-> <<>>]
LinesTyped ==
    << LinesStart,
       Insert(LinesStart, L(2, 0), <<NL>>, 0),
       Insert(Insert(LinesStart, L(2, 0), <<NL>>, 0), L(0, 1), <<SP>>, 0) >>

InitLines ==
    /\ buf = LinesTyped[3].buf
    /\ cursors = LinesTyped[3].cursors
    /\ active = LinesTyped[3].active
    /\ UndoStack = LinesTyped[3].UndoStack
    /\ RedoStack = LinesTyped[3].RedoStack
    /\ snaps = SnapsAfter(<<>>, LinesTyped, 1)
    /\ last = [op |-> "Insert", n |-> 1, prev |-> "Insert", dropped |-> 0]
    /\ arg = [NoArg EXCEPT !.start = L(0, 1), !.new = <<SP>>]
    /\ run = [phase |-> "edits", depth |-> 2]
    /\ pre = NoPre
    /\ groups = NoGroups
    /\ ret = "none"
    /\ now = 0
    /\ edits = 0
    /\ steps = 0
    /\ ticks = 0

\* line breaks and spaces
LineTexts == { <<NL>>, <<SP>> }

NextLines ==
    /\ steps < MaxMoves
    /\ \/ InsertAct(InputLocs(buf), LineTexts, EditSteps)
       \/ RemoveAct(RemoveRanges(buf), EditSteps)
       \/ UndoOneEventAct

SpecLines == InitLines /\ [][NextLines]_vars

\* ------------------------------------------------------------------ claims

\* the state before the event that UndoOneEvent has just undone
Before == snaps[Len(UndoStack) + 1]

\* the event that has just been undone
Undone == Peek(RedoStack)

\* the cursor with ordinal num
CursorOf(cs, num) == cs[num + 1]

\* C1: after editing calls that each executed events, and as many UndoOneEvent
\* calls as events, the buffer content is the content before those calls.
\* (Stated for every suffix of the editing calls: while UndoOneEvent calls undo
\* a run of events, the content is the content before the last undone event.)
ContentRoundTrip ==
    run.phase = "undoing" => buf = Before.buf

\* C2, as stated: after the editing calls and as many UndoOneEvent calls, every
\* cursor is at the position it had before those calls
AllCursorsRoundTrip ==
    run.phase = "undoing" =>
        \A i \in 1..Len(cursors) : cursors[i].Loc = Before.cursors[i].Loc

\* C2, amended: after the editing calls and as many UndoOneEvent calls, the
\* cursor that issued the event undone last is at the position it had before
\* that event was executed
IssuingCursorRoundTrip ==
    run.phase = "undoing" =>
        CursorOf(cursors, Undone.C.Num).Loc = CursorOf(Before.cursors, Undone.C.Num).Loc

\* UndoOneEvent calls have undone a run of events that began with an Insert
\* at the location of the issuing cursor; that cursor is back there and another
\* cursor is not where it was
IssuingCursorRestored ==
    /\ run.phase = "undoing"
    /\ run.depth = 0
    /\ Undone.EventType = TextEventRemove
    /\ Undone.Deltas[1].Start = Undone.C.Loc
    /\ CursorOf(cursors, Undone.C.Num).Loc = Undone.C.Loc
    /\ \E i \in 1..Len(cursors) : cursors[i].Loc # Before.cursors[i].Loc

\* C3: Undo() and then Redo(), from a state with an empty RedoStack, give back
\* the buffer content, the UndoStack, an empty RedoStack and every cursor's
\* position
UndoRedoRestores ==
    (last.op = "Redo" /\ pre.valid /\ Len(pre.eh.RedoStack) = 0) =>
        /\ buf = pre.eh.buf
        /\ UndoStack = pre.eh.UndoStack
        /\ RedoStack = <<>>
        /\ \A i \in 1..Len(cursors) : cursors[i].Loc = pre.eh.cursors[i].Loc

\* the kind of event an editing call executes
KindOf(op) ==
    CASE op = "Insert" -> TextEventInsert
      [] op = "Remove" -> TextEventRemove
      [] OTHER -> TextEventReplace

\* C4: an Insert, Remove or MultipleReplace call that executed an event leaves
\* RedoStack empty and its event, of its kind and time, on top of UndoStack; a
\* Redo() right after it returns false and changes nothing
HistoryLinear ==
    (last.op \in {"Insert", "Remove", "MultipleReplace"} /\ last.n > 0) =>
        /\ RedoStack = <<>>
        /\ Len(UndoStack) > 0
        /\ Peek(UndoStack).EventType = KindOf(last.op)
        /\ Peek(UndoStack).Time = now
        /\ Peek(UndoStack).C.Num = active
        /\ Redo(EH) = [eh |-> EH, ret |-> FALSE]

\* an editing call has executed an event and dropped undone events from
\* RedoStack
RedoDropped ==
    /\ last.op \in {"Insert", "Remove", "MultipleReplace"}
    /\ last.n > 0
    /\ last.dropped > 0

\* the two events on top of the UndoStack that the last Undo() was called on
Later == pre.eh.UndoStack[Len(pre.eh.UndoStack)]
Earlier == pre.eh.UndoStack[Len(pre.eh.UndoStack) - 1]

\* Undo() has just been called right after the second of two consecutive
\* Insert calls
UndoAfterInserts ==
    /\ last.op = "Undo"
    /\ last.prev = "Insert"
    /\ pre.valid
    /\ Len(pre.eh.UndoStack) >= 2
    /\ Later.EventType = TextEventInsert
    /\ Earlier.EventType = TextEventInsert

\* C5: two consecutive Inserts less than undoThreshold milliseconds apart are
\* both undone by one Undo()
CloseInsertsUndoneTogether ==
    (UndoAfterInserts /\ Later.Time - Earlier.Time < undoThreshold) =>
        Len(UndoStack) = Len(pre.eh.UndoStack) - 2

\* C6: of two consecutive Inserts at least undoThreshold milliseconds apart,
\* one Undo() undoes the later one alone: the earlier one is on top of
\* UndoStack, the later one on top of RedoStack, and a second Undo() undoes
\* the earlier one
FarInsertsUndoneApart ==
    (UndoAfterInserts /\ Later.Time - Earlier.Time >= undoThreshold) =>
        /\ Len(UndoStack) = Len(pre.eh.UndoStack) - 1
        /\ Peek(UndoStack).Time = Earlier.Time
        /\ Len(RedoStack) = Len(pre.eh.RedoStack) + 1
        /\ Peek(RedoStack).Time = Later.Time
        /\ buf = BufRemove(pre.eh.buf, Later.Deltas[1].Start, Later.Deltas[1].End).la
        /\ Len(Undo(EH).eh.UndoStack) <= Len(pre.eh.UndoStack) - 2

\* Undo() has undone the later of two Inserts exactly undoThreshold apart
FarInsertsUndone ==
    /\ UndoAfterInserts
    /\ Later.Time - Earlier.Time = undoThreshold
    /\ Len(UndoStack) = 1

\* the positions of a cursor: its location and its four selection anchors
Positions(c) ==
    <<c.Loc, c.CurSelection[1], c.CurSelection[2], c.OrigSelection[1], c.OrigSelection[2]>>

\* position q after n characters without a newline were inserted at p
Shifted(q, p, n) ==
    IF q.Y = p.Y /\ q.X >= p.X THEN L(q.X + n, q.Y) ELSE q

\* the last call was an Insert of text without a newline that executed an event
InsertedInLine ==
    /\ last.op = "Insert"
    /\ last.n = 1
    /\ LastIndexNL(Peek(UndoStack).Deltas[1].Text) = -1

\* C7: an Insert of n characters without a newline at p moves every cursor
\* location and selection anchor on p's line at or after p forward by n
\* columns and leaves every other one where it was
InsertShift ==
    InsertedInLine =>
        LET d == Peek(UndoStack).Deltas[1]
            was == snaps[Len(snaps)].cursors
        IN  \A i \in 1..Len(cursors) : \A k \in 1..5 :
                Positions(cursors[i])[k] =
                    Shifted(Positions(was[i])[k], d.Start, CharacterCount(d.Text))

\* an Insert without a newline at the very location of a cursor, with another
\* position before it on its line and another on another line
InsertShiftCases ==
    /\ InsertedInLine
    /\ LET d == Peek(UndoStack).Deltas[1]
           was == snaps[Len(snaps)].cursors
       IN  /\ \E i \in 1..Len(was) : was[i].Loc = d.Start /\ cursors[i].Loc # d.Start
           /\ \E i \in 1..Len(was) : \E k \in 1..5 :
                 Positions(was[i])[k].Y = d.Start.Y /\ Positions(was[i])[k].X < d.Start.X
           /\ \E i \in 1..Len(was) : \E k \in 1..5 : Positions(was[i])[k].Y # d.Start.Y

\* C8: ApplyDiff(new) leaves the buffer content equal to new
ApplyDiffReachesTarget ==
    last.op = "ApplyDiff" => Flatten(buf) = arg.new

\* ApplyDiff has worked from a diff of three segments, one of them with a
\* newline in it, that changed the content
ApplyDiffMultiLine ==
    /\ last.op = "ApplyDiff"
    /\ Len(arg.diff) = 3
    /\ \E i \in 1..3 : arg.diff[i].Type # "equal" /\ IndexNL(arg.diff[i].Text) # -1
    /\ Flatten(snaps[Len(snaps)].buf) # arg.new

\* the segments of a diff that are not equal segments
NonEqual(diff) == SelectSeq(diff, LAMBDA d : d.Type # "equal")

\* C9: ApplyDiff executes one Insert event for each insert segment and one
\* Remove event for each delete segment, in the order of the segments, and
\* nothing else; while UndoOneEvent calls undo them the content is the content
\* before the last undone event was executed, and after as many calls as
\* events it is the content before ApplyDiff
ApplyDiffEvents ==
    /\ last.op = "ApplyDiff" =>
          LET segs == NonEqual(arg.diff)
              base == Len(UndoStack) - Len(segs)
          IN  /\ last.n = Len(segs)
              /\ \A k \in 1..Len(segs) :
                    /\ Len(UndoStack[base + k].Deltas) = 1
                    /\ IF segs[k].Type = "insert"
                       THEN /\ UndoStack[base + k].EventType = TextEventInsert
                            /\ UndoStack[base + k].Deltas[1].Text = segs[k].Text
                       ELSE UndoStack[base + k].EventType = TextEventRemove
    /\ run.phase = "undoing" => buf = Before.buf

\* UndoOneEvent calls have undone the three events of an ApplyDiff call
ApplyDiffUndone ==
    /\ run.phase = "undoing"
    /\ run.depth = 0
    /\ Len(RedoStack) = 3
    /\ RedoStack[1].EventType # RedoStack[2].EventType
    /\ buf = snaps[1].buf

\* C10: MultipleReplace with two or more deltas and then one UndoOneEvent leave
\* the buffer content as it was before the call
ReplaceReversal ==
    (last.op = "UndoOneEvent" /\ last.prev = "MultipleReplace"
        /\ run.phase = "undoing" /\ Len(Undone.Deltas) >= 2) =>
        buf = Before.buf

\* what a call may change of the handler, but for the active cursor's index
Handler == <<buf, cursors, UndoStack, RedoStack>>

\* C11: Undo() on an empty UndoStack and Redo() on an empty RedoStack return
\* false and change nothing of the handler, and so do UndoOneEvent and
\* RedoOneEvent on an empty stack; on a non-empty stack Undo() and Redo()
\* return true
NothingToDo ==
    [][/\ last'.op = "Undo" =>
            IF Len(UndoStack) = 0 THEN ret' = "false" /\ UNCHANGED <<Handler, active>>
            ELSE ret' = "true"
       /\ last'.op = "Redo" =>
            IF Len(RedoStack) = 0 THEN ret' = "false" /\ UNCHANGED <<Handler, active>>
            ELSE ret' = "true"
       /\ (last'.op = "UndoOneEvent" /\ Len(UndoStack) = 0) => UNCHANGED <<Handler, active>>
       /\ (last'.op = "RedoOneEvent" /\ Len(RedoStack) = 0) => UNCHANGED <<Handler, active>>
      ]_vars

\* Undo() has returned false while there are events to redo
UndoHadNothing ==
    /\ last.op = "Undo"
    /\ ret = "false"
    /\ Len(RedoStack) > 0

\* C12: Insert with an empty text and Remove with start = end change neither
\* the buffer nor a cursor nor a stack
EmptyCallsChangeNothing ==
    [][((last'.op = "Insert" /\ arg'.new = <<>>)
            \/ (last'.op = "Remove" /\ arg'.start = arg'.end))
        => UNCHANGED Handler]_vars

\* Remove has been called with start = end while there are events to redo
EmptyRemoveCalled ==
    /\ last.op = "Remove"
    /\ arg.start = arg.end
    /\ Len(RedoStack) > 0
    /\ Len(UndoStack) > 0

\* C13, as stated: Replace with start = end changes neither the buffer nor a
\* stack, whatever the replacement text
EmptyReplaceChangesNothing ==
    [][(last'.op = "Replace" /\ arg'.start = arg'.end)
        => UNCHANGED <<buf, UndoStack, RedoStack>>]_vars

\* C13, amended: Replace with start = end removes nothing and acts as
\* Insert(start, text): with an empty text it changes nothing, otherwise it
\* inserts the text at the clamped start, executes one Insert event and
\* leaves RedoStack empty
EmptyReplaceInserts ==
    [][(last'.op = "Replace" /\ arg'.start = arg'.end) =>
          IF arg'.new = <<>> THEN UNCHANGED Handler
          ELSE /\ buf' = BufInsert(buf, clamp(arg'.start, buf), arg'.new)
               /\ Len(UndoStack') = Len(UndoStack) + 1
               /\ SubSeq(UndoStack', 1, Len(UndoStack)) = UndoStack
               /\ Peek(UndoStack').EventType = TextEventInsert
               /\ Peek(UndoStack').Deltas[1].Text = arg'.new
               /\ RedoStack' = <<>>
      ]_vars

\* Replace has been called with start = end and a text, and has executed an
\* event
EmptyReplaceInserted ==
    /\ last.op = "Replace"
    /\ arg.start = arg.end
    /\ arg.new # <<>>
    /\ last.n = 1
    /\ Flatten(buf) # Flatten(snaps[Len(snaps)].buf)

\* C14: the event of an Insert or Remove call records the clamped positions,
\* which are positions of the buffer, and the call acts there; an undo of the
\* event gives back the content
PositionsSanitized ==
    /\ (last.op \in {"Insert", "Remove"} /\ last.n = 1) =>
          LET d == Peek(UndoStack).Deltas[1]
              was == snaps[Len(UndoStack)].buf
          IN  /\ d.Start = clamp(arg.start, was)
              /\ IsValidLoc(was, d.Start)
              /\ IF last.op = "Insert"
                 THEN /\ IsValidLoc(buf, d.End)
                      /\ buf = BufInsert(was, d.Start, arg.new)
                 ELSE /\ d.End = clamp(arg.end, was)
                      /\ IsValidLoc(was, d.End)
                      /\ buf = BufRemove(was, d.Start, d.End).la
    /\ run.phase = "undoing" => buf = Before.buf

\* Remove has been called with an end outside the buffer and has removed text
RemovedOutOfRange ==
    /\ last.op = "Remove"
    /\ last.n = 1
    /\ ~IsValidLoc(snaps[Len(UndoStack)].buf, arg.end)
    /\ Peek(UndoStack).Deltas[1].Text # <<>>

\* the cursor that issued event t is no longer in the cursor list
Mismatch(t) == t.C.Num < 0 \/ t.C.Num >= Len(cursors)

\* C15: UndoOneEvent and RedoOneEvent on an event whose cursor ordinal is
\* negative or not below the number of cursors restore no cursor from the
\* snapshot: the cursors are where the relocation of the text change left
\* them, the text change is applied and the event moves to the other stack
CursorMismatchSkipped ==
    [][/\ (last'.op = "UndoOneEvent" /\ Len(UndoStack) > 0 /\ Mismatch(Peek(UndoStack))) =>
            /\ cursors' = UndoTextEvent(EH, Peek(UndoStack)).eh.cursors
            /\ buf' = UndoTextEvent(EH, Peek(UndoStack)).eh.buf
            /\ buf' # buf
            /\ UndoStack' = Pop(UndoStack)
            /\ Len(RedoStack') = Len(RedoStack) + 1
            /\ Peek(RedoStack').C = Peek(UndoStack).C
       /\ (last'.op = "RedoOneEvent" /\ Len(RedoStack) > 0 /\ Mismatch(Peek(RedoStack))) =>
            /\ cursors' = UndoTextEvent(EH, Peek(RedoStack)).eh.cursors
            /\ buf' = UndoTextEvent(EH, Peek(RedoStack)).eh.buf
            /\ buf' # buf
            /\ RedoStack' = Pop(RedoStack)
            /\ Len(UndoStack') = Len(UndoStack) + 1
            /\ Peek(UndoStack').C = Peek(RedoStack).C
      ]_vars

\* UndoOneEvent has undone an event right after its cursor was closed
UndoneAfterClose ==
    /\ last.op = "UndoOneEvent"
    /\ last.prev = "CloseCursor"
    /\ Len(RedoStack) > 0
    /\ Mismatch(Peek(RedoStack))

\* the deltas ds applied to la one after the other, each as a removal of
\* [Start, End) and an insertion of Text at Start
RECURSIVE InOrder(_, _, _)
InOrder(la, ds, i) ==
    IF i > Len(ds) THEN la
    ELSE InOrder(BufInsert(BufRemove(la, ds[i].Start, ds[i].End).la,
                           ds[i].Start, ds[i].Text), ds, i + 1)

\* the text txt with every w replaced by text
RECURSIVE Substituted(_, _, _)
Substituted(txt, w, text) ==
    IF txt = <<>> THEN <<>>
    ELSE (IF Head(txt) = w THEN text ELSE <<Head(txt)>>) \o Substituted(Tail(txt), w, text)

\* C16: MultipleReplace applies its deltas in the given order, each as a
\* removal of [Start, End) and an insertion of the text at Start in the buffer
\* as the earlier deltas left it; with the deltas of a replace-all the content
\* afterwards is the content with every occurrence replaced
ReplacedInOrder ==
    last.op = "MultipleReplace" =>
        LET was == snaps[Len(UndoStack)].buf
        IN  /\ buf = InOrder(was, arg.deltas, 1)
            /\ \A w \in SearchWords, text \in SearchTexts :
                  arg.deltas = ReplaceAllDeltas(was, w, text) =>
                      Flatten(buf) = Substituted(Flatten(was), w, text)

\* MultipleReplace has replaced two occurrences on one line by a longer text
ReplacedTwoOnLine ==
    /\ last.op = "MultipleReplace"
    /\ Len(arg.deltas) >= 2
    /\ arg.deltas[1].Start.Y = arg.deltas[2].Start.Y
    /\ Len(arg.deltas[1].Text) = 2
    /\ Flatten(buf) # Flatten(snaps[Len(UndoStack)].buf)

\* the characters of la from a up to b, read one by one
RECURSIVE CharsBetween(_, _, _)
CharsBetween(la, a, b) ==
    IF ~LessThan(a, b) THEN <<>>
    ELSE <<RuneAt(la, a)>> \o CharsBetween(la, LocRight(a, la), b)

\* C17: after a Remove call has executed its event, the Text of the event's
\* delta is the text that was between the clamped start and end before the
\* call, and the content is the content before the call without that range
RemovedTextCaptured ==
    (last.op = "Remove" /\ last.n = 1) =>
        LET was == snaps[Len(UndoStack)].buf
            st == clamp(arg.start, was)
            en == clamp(arg.end, was)
        IN  /\ Peek(UndoStack).Deltas[1].Text = CharsBetween(was, st, en)
            /\ Flatten(buf) = CharsBetween(was, BufStart, st)
                                \o CharsBetween(was, en, BufEnd(was))

\* Remove has removed two characters, one of them a line break
RemovedLineBreak ==
    /\ last.op = "Remove"
    /\ last.n = 1
    /\ Len(Peek(UndoStack).Deltas[1].Text) = 2
    /\ IndexNL(Peek(UndoStack).Deltas[1].Text) # -1
    /\ Len(buf) < Len(snaps[Len(UndoStack)].buf)

\* the k events on top of stack from have gone, top first, onto stack onto,
\* each with its time and its cursor, and nothing else of the two has changed
Moved(from, from2, onto, onto2, k) ==
    /\ k >= 1
    /\ from2 = SubSeq(from, 1, Len(from) - k)
    /\ Len(onto2) = Len(onto) + k
    /\ SubSeq(onto2, 1, Len(onto)) = onto
    /\ \A j \in 1..k :
          /\ onto2[Len(onto) + j].Time = from[Len(from) + 1 - j].Time
          /\ onto2[Len(onto) + j].C = from[Len(from) + 1 - j].C
          /\ Len(onto2[Len(onto) + j].Deltas) = Len(from[Len(from) + 1 - j].Deltas)

\* the times of the k events on top of stack st
TopTimes(st, k) == { st[i].Time : i \in (Len(st) - k + 1)..Len(st) }

\* C18: Undo() on a non-empty UndoStack, with B = t - (t mod 1000) for the
\* time t of the top event, undoes from the top exactly the maximal run of
\* events whose time is >= B: every event it undoes has a time >= B, it stops
\* at the first event older than B or at the empty stack, and every event it
\* undoes is pushed onto RedoStack.
UndoGroupExtent ==
    [][ (last'.op = "Undo" /\ Len(UndoStack) > 0) =>
            LET t == Peek(UndoStack).Time
                B == t - (t % 1000)
                k == Len(UndoStack) - Len(UndoStack')
            IN  /\ Moved(UndoStack, UndoStack', RedoStack, RedoStack', k)
                /\ \A tm \in TopTimes(UndoStack, k) : tm >= B
                /\ Len(UndoStack') = 0 \/ Peek(UndoStack').Time < B
                /\ ret' = "true" ]_vars

\* Undo() has undone two events of three and stopped at the older one
UndoStoppedAtOlder ==
    /\ last.op = "Undo"
    /\ pre.valid
    /\ Len(pre.eh.UndoStack) = 3
    /\ Len(UndoStack) = 1
    /\ Len(RedoStack) = 2

\* the bucket of a time: the time less its remainder by undoThreshold
BucketOf(tm) == tm - (tm % undoThreshold)

\* C19: Redo() on a non-empty RedoStack, with bucket = t - (t mod 1000) for
\* the time t of the top event, re-applies from the top exactly the maximal
\* run of events whose own bucket is not greater than bucket + undoThreshold,
\* pushing each back onto UndoStack: it stops only at an event of a greater
\* bucket or at the empty stack.
RedoGroupByBucket ==
    [][ (last'.op = "Redo" /\ Len(RedoStack) > 0) =>
            LET bucket == BucketOf(Peek(RedoStack).Time)
                k == Len(RedoStack) - Len(RedoStack')
            IN  /\ Moved(RedoStack, RedoStack', UndoStack, UndoStack', k)
                /\ \A tm \in TopTimes(RedoStack, k) : BucketOf(tm) <= bucket + undoThreshold
                /\ \/ Len(RedoStack') = 0
                   \/ BucketOf(Peek(RedoStack').Time) > bucket + undoThreshold ]_vars

\* C19 as the code has it: the run is of the events whose time, not whose
\* bucket, is not greater than bucket + undoThreshold; Redo() stops at the
\* first event later than that or at the empty stack, and returns true.
RedoGroupExtent ==
    [][ (last'.op = "Redo" /\ Len(RedoStack) > 0) =>
            LET bucket == BucketOf(Peek(RedoStack).Time)
                k == Len(RedoStack) - Len(RedoStack')
            IN  /\ Moved(RedoStack, RedoStack', UndoStack, UndoStack', k)
                /\ \A tm \in TopTimes(RedoStack, k) : tm <= bucket + undoThreshold
                /\ \/ Len(RedoStack') = 0
                   \/ Peek(RedoStack').Time > bucket + undoThreshold
                /\ ret' = "true" ]_vars

\* Redo() has stopped at an event of the very next bucket: one that is later
\* than bucket + undoThreshold, but whose bucket is not greater than it
RedoStoppedInNextBucket ==
    /\ last.op = "Redo"
    /\ ret = "true"
    /\ Len(UndoStack) > 0
    /\ Len(RedoStack) > 0
    /\ Peek(RedoStack).Time > BucketOf(Peek(UndoStack).Time) + undoThreshold
    /\ BucketOf(Peek(RedoStack).Time) <= BucketOf(Peek(UndoStack).Time) + undoThreshold

\* C20: Redo is symmetric to Undo at group granularity: after edits with
\* non-decreasing times and n Undo() calls, the j-th Redo() call re-applies
\* exactly the events that the (n-j+1)-th Undo() call has undone, so that the
\* buffer, UndoStack and RedoStack are again what they were before that
\* Undo(), and no Redo() re-applies events of two Undo() groups.
RedoSymmetricToUndo ==
    groups.set =>
        /\ buf = groups.expect.buf
        /\ UndoStack = groups.expect.UndoStack
        /\ RedoStack = groups.expect.RedoStack

\* a step has applied an event: an editing call or a redo has pushed it onto
\* UndoStack, an undo has pushed it onto RedoStack
Grew == Len(UndoStack') > Len(UndoStack) \/ Len(RedoStack') > Len(RedoStack)

\* the event the step has applied last, as the step has left it
Latest == IF Len(UndoStack') > Len(UndoStack) THEN Peek(UndoStack') ELSE Peek(RedoStack')

\* the number of newlines in text
RECURSIVE Newlines(_)
Newlines(text) ==
    IF Len(text) = 0 THEN 0
    ELSE (IF Head(text) = NL THEN 1 ELSE 0) + Newlines(Tail(text))

\* the characters of text after its last newline
RECURSIVE AfterLastNL(_)
AfterLastNL(text) ==
    IF Len(text) = 0 \/ text[Len(text)] = NL THEN <<>>
    ELSE Append(AfterLastNL(SubSeq(text, 1, Len(text) - 1)), text[Len(text)])

\* start advanced by the span of text
SpanEnd(start, text) ==
    IF Newlines(text) = 0 THEN L(start.X + Len(text), start.Y)
    ELSE L(Len(AfterLastNL(text)), start.Y + Newlines(text))

\* C21: after an Insert event has been applied, by the editing call, by the
\* undo of a Remove or by the redo of an Insert, the End of its delta is Start
\* advanced by the span of the inserted text, and the buffer text between
\* Start and End is the inserted text.
InsertEndDerived ==
    [][ (Grew /\ Latest.EventType = TextEventInsert /\ Len(Latest.Deltas) = 1) =>
            /\ Latest.Deltas[1].End = SpanEnd(Latest.Deltas[1].Start, Latest.Deltas[1].Text)
            /\ CharsBetween(buf', Latest.Deltas[1].Start, Latest.Deltas[1].End)
                    = Latest.Deltas[1].Text ]_vars

\* the undo of a Remove has put a line break back
ReinsertedLineBreak ==
    /\ last.op = "UndoOneEvent"
    /\ Len(RedoStack) > 0
    /\ Peek(RedoStack).EventType = TextEventInsert
    /\ Newlines(Peek(RedoStack).Deltas[1].Text) = 1
    /\ Peek(RedoStack).Deltas[1].End.Y = Peek(RedoStack).Deltas[1].Start.Y + 1

\* the step is an undo or a redo, which brings the cursor with index i back
\* to the snapshot of the event it has applied
Restores(i) ==
    /\ last'.op \in {"Undo", "Redo", "UndoOneEvent", "RedoOneEvent"}
    /\ i = Latest.C.Num + 1

\* position p after text with k >= 1 newlines was inserted at start
ShiftedLines(p, start, text) ==
    IF p.Y = start.Y /\ p.X >= start.X
    THEN L((p.X - start.X) + Len(AfterLastNL(text)), p.Y + Newlines(text))
    ELSE IF p.Y > start.Y THEN L(p.X, p.Y + Newlines(text))
    ELSE p

\* C22: when text with k >= 1 newlines is inserted at start, every position
\* on start's line at or after start goes to line + k and to column
\* (column - start.column) + the length of the text after its last newline,
\* every position on a later line keeps its column and goes to line + k, and
\* every position before start stays. (Of every cursor's location and four
\* anchors, but for the cursor that an undo or a redo brings back to the
\* snapshot of the event.)
MultiLineInsertShift ==
    [][ (Grew /\ Latest.EventType = TextEventInsert /\ Len(Latest.Deltas) = 1
              /\ Newlines(Latest.Deltas[1].Text) >= 1) =>
            \A i \in 1..Len(cursors) : \A k \in 1..5 :
                \/ Restores(i)
                \/ Positions(cursors'[i])[k] =
                        ShiftedLines(Positions(cursors[i])[k],
                                     Latest.Deltas[1].Start, Latest.Deltas[1].Text) ]_vars

\* an Insert of text with a newline in the middle of the first line, with a
\* position at start, one after it on the line, one before start and one on
\* the next line
MultiLineInsertCases ==
    /\ last.op = "Insert"
    /\ last.n = 1
    /\ Newlines(Peek(UndoStack).Deltas[1].Text) = 1
    /\ Peek(UndoStack).Deltas[1].Start = L(1, 0)
    /\ LET was == snaps[Len(snaps)].cursors
       IN  /\ \E i \in 1..Len(was) : was[i].Loc = L(1, 0) /\ cursors[i].Loc = L(1, 1)
           /\ \E i \in 1..Len(was) : was[i].Loc = L(2, 0) /\ cursors[i].Loc = L(2, 1)
           /\ \E i \in 1..Len(was) : \E k \in 1..5 :
                 Positions(was[i])[k] = L(0, 0) /\ Positions(cursors[i])[k] = L(0, 0)
           /\ \E i \in 1..Len(was) : \E k \in 1..5 :
                 Positions(was[i])[k] = L(0, 1) /\ Positions(cursors[i])[k] = L(0, 2)

\* a step has applied a Remove event of one delta: a Remove call, the undo of
\* an Insert or the redo of a Remove
RemoveApplied ==
    Grew /\ Latest.EventType = TextEventRemove /\ Len(Latest.Deltas) = 1
         /\ Latest.Deltas[1].Start # Latest.Deltas[1].End

\* position p, on end's line at or after end, after [start, end) was removed
PulledBack(p, start, end) == L(start.X + (p.X - end.X), start.Y)

\* C23: after [start, end) has been removed, on one line or over several,
\* every position on end's line at or after end is at (start.line,
\* start.column + column - end.column), a position at end being at start.
\* (Of every cursor's location and four anchors, but for the cursor that an
\* undo or a redo brings back to the snapshot of the event.)
RemoveEndLineShift ==
    [][ RemoveApplied =>
            \A i \in 1..Len(cursors) : \A k \in 1..5 :
                \/ Restores(i)
                \/ ~(/\ Positions(cursors[i])[k].Y = Latest.Deltas[1].End.Y
                      /\ Positions(cursors[i])[k].X >= Latest.Deltas[1].End.X)
                \/ Positions(cursors'[i])[k] =
                        PulledBack(Positions(cursors[i])[k],
                                   Latest.Deltas[1].Start, Latest.Deltas[1].End) ]_vars

\* position p, on a line after end's line or before end, after [start, end)
\* was removed
LinesTakenOff(p, start, end) ==
    IF p.Y > end.Y THEN L(p.X, p.Y - (end.Y - start.Y)) ELSE p

\* the position the cursor's own re-clamp leaves for location p in la
Reclamped(p, la) == Relocate([Loc |-> p], la).Loc

\* C24: after [start, end) has been removed, every position on a line after
\* end's line keeps its column and has its line decreased by end.line -
\* start.line, and every position before end, those inside the removed range
\* too, is where it was; a cursor's location is then brought back into the
\* buffer, its anchors are not. (Of every cursor, but for the cursor that an
\* undo or a redo brings back to the snapshot of the event.)
RemoveElsewhereShift ==
    [][ RemoveApplied =>
            \A i \in 1..Len(cursors) : \A k \in 1..5 :
                \/ Restores(i)
                \/ /\ Positions(cursors[i])[k].Y = Latest.Deltas[1].End.Y
                   /\ Positions(cursors[i])[k].X >= Latest.Deltas[1].End.X
                \/ Positions(cursors'[i])[k] =
                        IF k = 1
                        THEN Reclamped(LinesTakenOff(Positions(cursors[i])[k],
                                           Latest.Deltas[1].Start, Latest.Deltas[1].End), buf')
                        ELSE LinesTakenOff(Positions(cursors[i])[k],
                                           Latest.Deltas[1].Start, Latest.Deltas[1].End) ]_vars

\* a Remove over a line break, with a position on a line after end's line
\* that has gone up by one line and an anchor inside the range that has
\* stayed where it was
RemoveElsewhereCases ==
    /\ last.op = "Remove"
    /\ last.n = 1
    /\ LET d == Peek(UndoStack).Deltas[1]
           was == snaps[Len(snaps)].cursors
       IN  /\ d.End.Y = d.Start.Y + 1
           /\ \E i \in 1..Len(was) : \E k \in 1..5 :
                 /\ Positions(was[i])[k].Y > d.End.Y
                 /\ Positions(cursors[i])[k] =
                        L(Positions(was[i])[k].X, Positions(was[i])[k].Y - 1)
           /\ \E i \in 1..Len(was) : \E k \in 2..5 :
                 /\ LessThan(d.Start, Positions(was[i])[k])
                 /\ LessThan(Positions(was[i])[k], d.End)
                 /\ Positions(cursors[i])[k] = Positions(was[i])[k]

\* the step is an undo, which sets the cursor with index i to the snapshot of
\* the event after the transform
Overridden(i) ==
    /\ last'.op \in {"Undo", "UndoOneEvent"}
    /\ i = Latest.C.Num + 1

\* the five positions of the cursor with index i that the transform of the
\* step works on: a redo sets the cursor of the event to the snapshot first
From(i) ==
    IF last'.op \in {"Redo", "RedoOneEvent"} /\ i = Latest.C.Num + 1
    THEN Positions(Latest.C)
    ELSE Positions(cursors[i])

\* what the step has made of position k of cursor i and of position l of
\* cursor j is what one rule makes of them: the same if both are locations or
\* both are anchors, the location being the anchor brought back into the
\* buffer if one is a location
SameRule(i, k, j, l) ==
    /\ (k = 1) = (l = 1) => Positions(cursors'[i])[k] = Positions(cursors'[j])[l]
    /\ (k = 1 /\ l > 1) =>
          Positions(cursors'[i])[k] = Reclamped(Positions(cursors'[j])[l], buf')

\* C25: after an event has been applied, on first execution, on undo and on
\* redo, every cursor of the handler has its location and its four anchors
\* transformed by the same rule: positions that were equal, of whichever
\* cursors, are equal afterwards, and every location has been brought back
\* into the buffer as the rule has it after the transform. The cursor an undo
\* sets to the snapshot afterwards is left out.
UniformRelocation ==
    [][ Grew =>
            \A i, j \in 1..Len(cursors) : \A k, l \in 1..5 :
                \/ Overridden(i)
                \/ Overridden(j)
                \/ /\ IsValidLoc(buf', cursors'[i].Loc)
                   /\ From(i)[k] = From(j)[l] => SameRule(i, k, j, l) ]_vars

\* the Remove rule for [start, end) and the Insert rule for text at start, as
\* the claims above have them
RemoveRule(p, start, end) ==
    IF p.Y = end.Y /\ p.X >= end.X THEN PulledBack(p, start, end)
    ELSE LinesTakenOff(p, start, end)

InsertRule(p, start, text) ==
    IF Newlines(text) = 0 THEN Shifted(p, start, Len(text))
    ELSE ShiftedLines(p, start, text)

\* the delta of the Replace event that the step applies, before the step:
\* the span it takes out and the text it puts in
Pending ==
    IF last'.op = "MultipleReplace" THEN arg'.deltas[1]
    ELSE IF last'.op \in {"Undo", "UndoOneEvent"} THEN Peek(UndoStack).Deltas[1]
    ELSE Peek(RedoStack).Deltas[1]

\* C26: applying a Replace delta, on first execution, on undo or on redo,
\* relocates every cursor position as the Remove rule for the span taken out
\* followed by the Insert rule for the text put in would (a location being
\* brought back into the buffer afterwards), so that a position after the
\* span on its line shifts by the length put in less the length taken out.
\* The cursor an undo or a redo sets to the snapshot is left out.
ReplaceRelocation ==
    [][ (Grew /\ Latest.EventType = TextEventReplace /\ Len(Latest.Deltas) = 1) =>
            \A i \in 1..Len(cursors) : \A k \in 1..5 :
                \/ Restores(i)
                \/ Positions(cursors'[i])[k] =
                        IF k = 1
                        THEN Reclamped(InsertRule(RemoveRule(Positions(cursors[i])[k],
                                                             Pending.Start, Pending.End),
                                                  Pending.Start, Pending.Text), buf')
                        ELSE InsertRule(RemoveRule(Positions(cursors[i])[k],
                                                   Pending.Start, Pending.End),
                                        Pending.Start, Pending.Text) ]_vars

\* cursor c has the location, the anchors and the trailing-whitespace line of
\* cursor b
SameAs(c, b) ==
    /\ c.Loc = b.Loc
    /\ c.CurSelection = b.CurSelection
    /\ c.OrigSelection = b.OrigSelection
    /\ c.NewTrailingWsY = b.NewTrailingWsY

\* C27: after UndoOneEvent of an event whose snapshot ordinal is a valid
\* index, the cursor at that index has the location, the anchors and the
\* trailing-whitespace line of the snapshot, and the snapshot is the issuing
\* cursor as it was before the editing call, whatever the transform did.
SnapshotRestoredOnUndo ==
    /\ (last.op = "UndoOneEvent" /\ Len(RedoStack) > 0
            /\ Undone.C.Num >= 0 /\ Undone.C.Num < Len(cursors)) =>
          SameAs(CursorOf(cursors, Undone.C.Num), Undone.C)
    /\ (last.op = "UndoOneEvent" /\ run.phase = "undoing"
            /\ Undone.C.Num >= 0 /\ Undone.C.Num < Len(cursors)) =>
          SameAs(CursorOf(cursors, Undone.C.Num), CursorOf(Before.cursors, Undone.C.Num))

\* UndoOneEvent has undone an Insert of a letter after trailing whitespace at
\* the issuing cursor: the cursor is back before the letter and its
\* trailing-whitespace line is set again
TrailingWsRestored ==
    /\ last.op = "UndoOneEvent"
    /\ run.phase = "undoing"
    /\ Undone.EventType = TextEventRemove
    /\ Undone.Deltas[1].Text = <<"x">>
    /\ Undone.C.NewTrailingWsY = Undone.C.Loc.Y
    /\ Undone.C.Loc = Undone.Deltas[1].Start
    /\ CursorOf(cursors, Undone.C.Num).Loc = Undone.C.Loc
    /\ CursorOf(cursors, Undone.C.Num).NewTrailingWsY = Undone.C.Loc.Y

\* Redo() has re-applied all that the Undo() before it had undone
Redone ==
    /\ last.op = "Redo"
    /\ ret = "true"
    /\ pre.valid
    /\ Len(UndoStack) = Len(pre.eh.UndoStack)
    /\ Len(UndoStack) > 0

\* C28: RedoOneEvent sets the issuing cursor to the snapshot before it
\* applies the event again, so that the transform moves it and after a redo
\* the cursor is where the execution had left it; UndoOneEvent sets it to the
\* snapshot after it has applied the inverse, so that after an undo the
\* cursor is where the snapshot has it.
SnapshotThenTransformOnRedo ==
    /\ Redone =>
          Positions(CursorOf(cursors, Peek(UndoStack).C.Num))
              = Positions(CursorOf(pre.eh.cursors, Peek(UndoStack).C.Num))
    /\ (last.op \in {"Undo", "UndoOneEvent"} /\ Len(RedoStack) > 0) =>
          Positions(CursorOf(cursors, Undone.C.Num)) = Positions(Undone.C)

\* Undo() and Redo() of an Insert at the issuing cursor have left the cursor
\* past the inserted text, where the Insert had left it and not where the
\* snapshot has it
RedoneCursorMoved ==
    /\ Redone
    /\ Peek(UndoStack).EventType = TextEventInsert
    /\ Peek(UndoStack).C.Loc = Peek(UndoStack).Deltas[1].Start
    /\ CursorOf(cursors, Peek(UndoStack).C.Num).Loc = Peek(UndoStack).Deltas[1].End
    /\ CursorOf(cursors, Peek(UndoStack).C.Num).Loc # Peek(UndoStack).C.Loc

\* the index of the cursor that issued the event on top of UndoStack
Issuing == Peek(UndoStack).C.Num + 1

\* C29: on first execution the issuing cursor is relocated by the transform
\* that relocates every other cursor: after an Insert at the location of the
\* issuing cursor that cursor is past the inserted text, and so is any other
\* cursor that was at that location; and whatever position of another cursor
\* equalled an anchor of the issuing cursor equals it afterwards.
IssuingCursorTransformed ==
    (last.op = "Insert" /\ last.n = 1) =>
        LET d == Peek(UndoStack).Deltas[1]
            was == snaps[Len(snaps)].cursors
        IN  /\ was[Issuing].Loc = d.Start =>
                  /\ cursors[Issuing].Loc = d.End
                  /\ \A j \in 1..Len(was) :
                        was[j].Loc = d.Start => cursors[j].Loc = cursors[Issuing].Loc
            /\ \A j \in 1..Len(was) : \A k, l \in 2..5 :
                  Positions(was[Issuing])[k] = Positions(was[j])[l] =>
                      Positions(cursors[Issuing])[k] = Positions(cursors[j])[l]

\* an Insert at the location of the issuing cursor and of another cursor has
\* moved both, and the anchor the issuing cursor had there, past the text
TwoCursorsMovedAlike ==
    /\ last.op = "Insert"
    /\ last.n = 1
    /\ LET d == Peek(UndoStack).Deltas[1]
           was == snaps[Len(snaps)].cursors
       IN  \E j \in 1..Len(was) :
              /\ j # Issuing
              /\ was[Issuing].Loc = d.Start
              /\ was[j].Loc = d.Start
              /\ was[Issuing].CurSelection[2] = d.Start
              /\ d.End # d.Start
              /\ cursors[Issuing].Loc = d.End
              /\ cursors[j].Loc = d.End
              /\ cursors[Issuing].CurSelection[2] = d.End

\* C30: a Remove whose start and end differ as they are given but are the
\* same position once clamped into the buffer is a no-op: no event is pushed
\* onto UndoStack and RedoStack is not cleared.
ClampedEmptyRemoveIsNoOp ==
    [][ (/\ last'.op = "Remove"
         /\ arg'.start # arg'.end
         /\ clamp(arg'.start, buf) = clamp(arg'.end, buf))
        => UNCHANGED <<buf, UndoStack, RedoStack>> ]_vars

\* the kinds of the events of stack st, bottom to top
Kinds(st) == [i \in 1..Len(st) |-> st[i].EventType]

\* the kinds of the events of the history, oldest first, with the kinds of the
\* undone events negated
CreatedKinds(us, rs) ==
    Kinds(us) \o [i \in 1..Len(rs) |-> -rs[Len(rs) + 1 - i].EventType]

\* the Start positions of the deltas ds, in their order
Starts(ds) == [i \in 1..Len(ds) |-> ds[i].Start]

\* the k events on top of stack from are the k events on top of stack onto2,
\* in the opposite order, and each Replace event among them has its deltas in
\* the reverse order
ReversedOnce(from, onto2, k) ==
    \A j \in 1..k :
        from[Len(from) + 1 - j].EventType = TextEventReplace =>
            Starts(onto2[Len(onto2) - k + j].Deltas) =
                Reverse(Starts(from[Len(from) + 1 - j].Deltas))

\* C31: every event on UndoStack has the kind it was created with and every
\* event on RedoStack the negated kind (Insert as Remove, Remove as Insert,
\* Replace as Replace): an editing call pushes an event of its own kind and
\* leaves the kinds below it alone, and undo and redo calls keep the kinds of
\* the history, those on RedoStack negated, as they are, so that an undo and a
\* redo give an event its kind back; every application of a Replace event
\* reverses its delta list once
KindsKept ==
    [][ /\ last'.op \in {"Insert", "Remove", "MultipleReplace"} =>
              /\ CreatedKinds(UndoStack', RedoStack') =
                    IF last'.n = 0 THEN CreatedKinds(UndoStack, RedoStack)
                    ELSE Append(Kinds(UndoStack), KindOf(last'.op))
              /\ (last'.op = "MultipleReplace" /\ last'.n > 0) =>
                    Starts(Peek(UndoStack').Deltas) = Reverse(Starts(arg'.deltas))
        /\ last'.op \in {"Undo", "Redo", "UndoOneEvent", "RedoOneEvent"} =>
              /\ CreatedKinds(UndoStack', RedoStack') = CreatedKinds(UndoStack, RedoStack)
              /\ \A i \in 1..Len(RedoStack') :
                    RedoStack'[i].EventType \in
                        {TextEventInsert, TextEventRemove, TextEventReplace}
              /\ ReversedOnce(UndoStack, RedoStack', Len(UndoStack) - Len(UndoStack'))
              /\ ReversedOnce(RedoStack, UndoStack', Len(RedoStack) - Len(RedoStack')) ]_vars

\* an Insert event and a Replace event of two deltas have been undone:
\* RedoStack holds the first as a Remove event with the inserted text and the
\* second as a Replace event
KindsNegated ==
    /\ Len(RedoStack) = 2
    /\ RedoStack[2].EventType = TextEventRemove
    /\ RedoStack[2].Deltas[1].Text = <<"x">>
    /\ RedoStack[1].EventType = TextEventReplace
    /\ Len(RedoStack[1].Deltas) = 2
    /\ last.op = "UndoOneEvent"
    /\ last.prev = "UndoOneEvent"

\* what identifies event t on either stack: its time, its cursor snapshot, the
\* Start positions of its deltas and its kind, negated when neg
EventId(t, neg) ==
    [Time |-> t.Time, C |-> t.C, Starts |-> { t.Deltas[i].Start : i \in 1..Len(t.Deltas) },
     N |-> Len(t.Deltas), Kind |-> IF neg THEN -t.EventType ELSE t.EventType]

\* the events of the history: UndoStack bottom to top, then RedoStack top to
\* bottom
History(us, rs) ==
    [i \in 1..Len(us) |-> EventId(us[i], FALSE)] \o
    [i \in 1..Len(rs) |-> EventId(rs[Len(rs) + 1 - i], TRUE)]

\* C32: Undo, Redo, UndoOneEvent and RedoOneEvent neither create nor discard
\* events: UndoStack bottom to top followed by RedoStack top to bottom is the
\* same sequence of events before and after them, only the split point moves;
\* an editing call keeps the events of UndoStack, and the events of RedoStack
\* are discarded only by an editing call that executes an event
EventsConserved ==
    [][ /\ last'.op \in {"Undo", "Redo", "UndoOneEvent", "RedoOneEvent"} =>
              History(UndoStack', RedoStack') = History(UndoStack, RedoStack)
        /\ last'.op \in {"Insert", "Remove", "MultipleReplace"} =>
              IF last'.n = 0
              THEN UndoStack' = UndoStack /\ RedoStack' = RedoStack
              ELSE /\ SubSeq(UndoStack', 1, Len(UndoStack)) = UndoStack
                   /\ Len(UndoStack') = Len(UndoStack) + last'.n
                   /\ RedoStack' = <<>> ]_vars

\* Undo() has moved two events to RedoStack at once and the Redo() after it
\* has moved both back
GroupMovedBack ==
    /\ last.op = "Redo"
    /\ last.prev = "Undo"
    /\ ret = "true"
    /\ Len(UndoStack) = 2
    /\ Len(RedoStack) = 0
    /\ UndoStack[1].Time = UndoStack[2].Time

\* Undo() and Redo() make progress: a call on a non-empty stack returns true
\* and takes at least one event off it, and every event it takes off one stack
\* it puts onto the other; a call on an empty stack returns false
UndoRedoProgress ==
    [][ /\ last'.op = "Undo" =>
              IF Len(UndoStack) = 0 THEN ret' = "false"
              ELSE /\ ret' = "true"
                   /\ Len(UndoStack') < Len(UndoStack)
                   /\ Len(UndoStack') + Len(RedoStack') = Len(UndoStack) + Len(RedoStack)
        /\ last'.op = "Redo" =>
              IF Len(RedoStack) = 0 THEN ret' = "false"
              ELSE /\ ret' = "true"
                   /\ Len(RedoStack') < Len(RedoStack)
                   /\ Len(UndoStack') + Len(RedoStack') = Len(UndoStack) + Len(RedoStack) ]_vars

\* the Undo() that returns false after events were executed finds the content
\* that held before the first of them
DrainedToFirstContent ==
    (last.op = "Undo" /\ ret = "false" /\ Len(snaps) > 0) => buf = snaps[1].buf

\* C33: Undo() and Redo() end and make progress: a call on a non-empty stack
\* moves at least one event, so repeated Undo() calls empty UndoStack and then
\* return false, and the buffer content then is the content before the first
\* recorded edit
UndoDrains == UndoRedoProgress /\ []DrainedToFirstContent

\* the one delta d of an event of kind kind on top of a stack agrees with the
\* buffer la: the text of an Insert is what la holds between Start and End, and
\* a Remove has a Start in la at which putting its Text back gives that Text
\* between Start and End
DeltaAgrees(kind, d, la) ==
    IF kind = TextEventInsert THEN CharsBetween(la, d.Start, d.End) = d.Text
    ELSE /\ IsValidLoc(la, d.Start)
         /\ CharsBetween(BufInsert(la, d.Start, d.Text), d.Start, d.End) = d.Text

\* C34: after Insert, Remove, Undo and Redo calls the top event of UndoStack is
\* consistent with the buffer: the text of an Insert is the buffer text between
\* its delta's Start and End; the Start of a Remove is a position of the buffer
\* and its Text the text that was removed there, so that putting it back gives
\* the content before the event; the top event of RedoStack is consistent in
\* the mirrored sense, by the kind it is stored with
TopEventsReversible ==
    /\ Len(UndoStack) > 0 =>
          /\ Len(Peek(UndoStack).Deltas) = 1
          /\ DeltaAgrees(Peek(UndoStack).EventType, Peek(UndoStack).Deltas[1], buf)
          /\ Peek(UndoStack).EventType = TextEventRemove =>
                BufInsert(buf, Peek(UndoStack).Deltas[1].Start,
                          Peek(UndoStack).Deltas[1].Text) = snaps[Len(UndoStack)].buf
    /\ Len(RedoStack) > 0 =>
          /\ Len(Peek(RedoStack).Deltas) = 1
          /\ DeltaAgrees(Peek(RedoStack).EventType, Peek(RedoStack).Deltas[1], buf)

\* Remove has taken a line break out, Insert has put two lines in, and the
\* Insert has been undone: a Remove event is on top of either stack, each with
\* a text of more than one line
BothTopsMultiLine ==
    /\ Len(UndoStack) > 0
    /\ Len(RedoStack) > 0
    /\ Peek(UndoStack).EventType = TextEventRemove
    /\ Newlines(Peek(UndoStack).Deltas[1].Text) = 1
    /\ Peek(RedoStack).EventType = TextEventRemove
    /\ Newlines(Peek(RedoStack).Deltas[1].Text) = 1
    /\ last.op \in {"Undo", "UndoOneEvent"}

\* C35: after MultipleReplace has applied one Replace delta, the range from
\* Start to End recorded in the delta is a range of the buffer that holds
\* exactly the replacement text, for a replacement text with newlines as for
\* one without: it is the text that an undo of the event takes out of the
\* buffer
ReplaceRangeCovers ==
    (last.op = "MultipleReplace" /\ last.n = 1 /\ Len(arg.deltas) = 1) =>
        /\ IsValidLoc(buf, Peek(UndoStack).Deltas[1].End)
        /\ BufRemove(buf, Peek(UndoStack).Deltas[1].Start,
                     Peek(UndoStack).Deltas[1].End).text = arg.deltas[1].Text

\* C36: Replace(start, end, text) with a range that is not empty and a text
\* that is not empty is a Remove event followed by an Insert event: it pushes
\* exactly these two events onto UndoStack; one UndoOneEvent afterwards undoes
\* the insertion only and leaves the content with the range removed, which is
\* not the content before the call, and a second one gives that content back
ReplaceIsRemoveThenInsert ==
    [][ /\ (/\ last'.op = "Replace"
            /\ arg'.new # <<>>
            /\ clamp(arg'.start, buf) # clamp(arg'.end, buf)) =>
              LET gone == BufRemove(buf, clamp(arg'.start, buf), clamp(arg'.end, buf)).la
              IN  /\ Len(UndoStack') = Len(UndoStack) + 2
                  /\ SubSeq(UndoStack', 1, Len(UndoStack)) = UndoStack
                  /\ UndoStack'[Len(UndoStack) + 1].EventType = TextEventRemove
                  /\ UndoStack'[Len(UndoStack) + 2].EventType = TextEventInsert
                  /\ UndoStack'[Len(UndoStack) + 2].Deltas[1].Text = arg'.new
                  /\ gone # buf
                  /\ UndoOneEvent(EH').buf = gone
                  /\ UndoOneEvent(UndoOneEvent(EH')).buf = buf
        /\ (/\ last'.op = "UndoOneEvent"
            /\ last.op = "Replace"
            /\ last.n = 2
            /\ UndoStack[Len(UndoStack) - 1].Deltas[1].Text # <<>>) =>
              /\ UndoStack' = Pop(UndoStack)
              /\ Peek(UndoStack').EventType = TextEventRemove
              /\ buf' = snaps[Len(UndoStack)].buf
              /\ buf' # snaps[Len(UndoStack) - 1].buf ]_vars

\* Replace has put a text in the place of a range of the buffer, as the first
\* call, and one UndoOneEvent has undone its Insert event: the Remove event is
\* left on UndoStack and the range is still gone
ReplaceHalfUndone ==
    /\ steps = 2
    /\ last.op = "UndoOneEvent"
    /\ last.prev = "Replace"
    /\ Len(UndoStack) = 1
    /\ Len(RedoStack) = 1
    /\ Peek(UndoStack).EventType = TextEventRemove
    /\ Peek(UndoStack).Deltas[1].Text # <<>>
    /\ Peek(RedoStack).Deltas[1].Text = <<"x">>
    /\ Len(Flatten(buf)) < Len(Flatten(snaps[1].buf))

\* C37: ApplyDiff pushes as many events as its diff has delete and insert
\* segments; with a diff of equal segments only, which is the diff of a target
\* equal to the content, it executes no event: buffer, cursors and UndoStack
\* are unchanged and the undone events stay on RedoStack
ApplyDiffCountsSegments ==
    [][ last'.op = "ApplyDiff" =>
            /\ Len(UndoStack') = Len(UndoStack) + Len(NonEqual(arg'.diff))
            /\ SubSeq(UndoStack', 1, Len(UndoStack)) = UndoStack
            /\ NonEqual(arg'.diff) = <<>> =>
                  /\ arg'.new = Flatten(buf)
                  /\ UNCHANGED <<buf, cursors, UndoStack, RedoStack>> ]_vars

\* ApplyDiff was called with the content the buffer had after an event was
\* undone, with a diff of equal segments, and the undone event is still there
SameContentKeepsRedo ==
    /\ last.op = "ApplyDiff"
    /\ last.prev = "UndoOneEvent"
    /\ arg.diff # <<>>
    /\ NonEqual(arg.diff) = <<>>
    /\ arg.new = Flatten(buf)
    /\ Len(RedoStack) > 0

\* the step is the first execution of an Insert of a text without a newline
\* that has left the active cursor at the End of the delta, at the end of its
\* line
InsertedAtEol ==
    /\ last'.op = "Insert"
    /\ last'.n = 1
    /\ Newlines(arg'.new) = 0
    /\ cursors'[active' + 1].Loc = Peek(UndoStack').Deltas[1].End
    /\ cursors'[active' + 1].Loc.X = LineLen(buf', cursors'[active' + 1].Loc.Y)

\* the text the step has inserted ends in whitespace
EndsInWs == arg'.new[Len(arg'.new)] \in {SP, NL}

\* the text the step has inserted is whitespace placed right after a
\* whitespace character of the line
WsAfterWs ==
    /\ \A i \in 1..Len(arg'.new) : arg'.new[i] \in {SP, NL}
    /\ Peek(UndoStack').Deltas[1].Start.X > 0
    /\ buf[Peek(UndoStack').Deltas[1].Start.Y + 1][Peek(UndoStack').Deltas[1].Start.X]
            \in {SP, NL}

\* C38: after the first execution of a single-line Insert that leaves the
\* active cursor at the delta's End at the end of its line, the cursor's
\* NewTrailingWsY is its line if the text ends in whitespace and is not
\* whitespace placed right after whitespace, -1 if the text does not end in
\* whitespace, and what it was if whitespace was added right after whitespace
InsertTrailingWsRule ==
    [][ InsertedAtEol =>
            cursors'[active' + 1].NewTrailingWsY =
                IF ~EndsInWs THEN -1
                ELSE IF ~WsAfterWs THEN cursors'[active' + 1].Loc.Y
                ELSE cursors[active' + 1].NewTrailingWsY ]_vars

\* a space has been added at the end of a line, right after a space, by a
\* cursor whose trailing-whitespace line was not set, and it is still not set
WsAfterWsLeftUnset ==
    /\ last.op = "Insert"
    /\ last.n = 1
    /\ arg.new = <<SP>>
    /\ Peek(UndoStack).Deltas[1].Start.X > 0
    /\ RuneAt(buf, L(Peek(UndoStack).Deltas[1].Start.X - 1,
                     Peek(UndoStack).Deltas[1].Start.Y)) = SP
    /\ cursors[active + 1].Loc = Peek(UndoStack).Deltas[1].End
    /\ cursors[active + 1].Loc.X = LineLen(buf, cursors[active + 1].Loc.Y)
    /\ cursors[active + 1].NewTrailingWsY = -1

\* the trailing-whitespace line of the cursor with index i is left as it is
WsKept(i) == cursors'[i].NewTrailingWsY = cursors[i].NewTrailingWsY

\* C39: the trailing-whitespace bookkeeping runs only on the first execution
\* of the one-delta events of Insert and Remove calls, and only for the active
\* cursor: such a call leaves NewTrailingWsY of every other cursor as it is, a
\* MultipleReplace call leaves it as it is for every cursor, and an undo or a
\* redo of an event copies it from the event's snapshot to the cursor of the
\* snapshot and leaves it as it is for every other cursor
TrailingWsScope ==
    [][ /\ last'.op \in {"Insert", "Remove"} =>
              \A i \in 1..Len(cursors) : i # active' + 1 => WsKept(i)
        /\ last'.op = "MultipleReplace" => \A i \in 1..Len(cursors) : WsKept(i)
        /\ (last'.op \in {"UndoOneEvent", "RedoOneEvent"} /\ Grew) =>
              \A i \in 1..Len(cursors) :
                  IF i = Latest.C.Num + 1
                  THEN cursors'[i].NewTrailingWsY = Latest.C.NewTrailingWsY
                  ELSE WsKept(i) ]_vars

\* MultipleReplace has applied two deltas while the trailing-whitespace line of
\* the active cursor was set, and it is still set
ReplaceKeptWsLine ==
    /\ last.op = "MultipleReplace"
    /\ last.n = 1
    /\ Len(arg.deltas) = 2
    /\ cursors[active + 1].NewTrailingWsY # -1

\* the delta of the event that the step has executed, and the number of lines
\* it spans
Done == Peek(UndoStack').Deltas[1]
SpanLines == Done.End.Y - Done.Start.Y

\* the step is the first execution of an Insert or Remove of more than one
\* line that lies before the active cursor, at most up to it, and has shifted
\* the cursor's line by the lines of the edit, and neither whitespace rule
\* applies: the cursor is not left at the edit boundary at the end of its line
ShiftedByLinesAbove ==
    /\ last'.op \in {"Insert", "Remove"}
    /\ last'.n = 1
    /\ SpanLines > 0
    /\ IF last'.op = "Insert"
       THEN /\ LessEqual(Done.Start, cursors[active' + 1].Loc)
            /\ cursors'[active' + 1].Loc.Y = cursors[active' + 1].Loc.Y + SpanLines
            /\ ~(/\ cursors'[active' + 1].Loc = Done.End
                 /\ Done.End.X = LineLen(buf', Done.End.Y))
       ELSE /\ LessEqual(Done.End, cursors[active' + 1].Loc)
            /\ cursors'[active' + 1].Loc.Y = cursors[active' + 1].Loc.Y - SpanLines
            /\ ~(/\ cursors'[active' + 1].Loc = Done.Start
                 /\ Done.Start.X = LineLen(buf', Done.Start.Y))

\* the trailing-whitespace line of the active cursor has followed the cursor's
\* line, and an unset one is still unset
WsLineFollows ==
    /\ cursors[active' + 1].NewTrailingWsY = cursors[active' + 1].Loc.Y =>
          cursors'[active' + 1].NewTrailingWsY = cursors'[active' + 1].Loc.Y
    /\ cursors[active' + 1].NewTrailingWsY = -1 =>
          cursors'[active' + 1].NewTrailingWsY = -1

\* C40: when a multi-line one-delta Insert or Remove before the active cursor
\* shifts the cursor's line by d lines and neither whitespace rule applies, a
\* NewTrailingWsY that was the cursor's line before the edit is the cursor's
\* line afterwards, and an unset one stays unset
TrailingWsLineTracked == [][ShiftedByLinesAbove => WsLineFollows]_vars

\* the same for an edit after which the cursor is past the Start of the delta
TrailingWsLineTrackedPastStart ==
    [][ (ShiftedByLinesAbove /\ GreaterThan(cursors'[active' + 1].Loc, Done.Start))
            => WsLineFollows ]_vars

====
